---------------------------- MODULE Spec2Model ----------------------------
(***************************************************************************)
(* A model of the Marscoin ledger engine: crypto primitives, Transaction,  *)
(* Block, Blockchain (chain, UTXO set, mempool, difficulty) and Wallet.    *)
(*                                                                         *)
(* Strings are sequences of integer tokens.  A literal of the source is a  *)
(* one-token sequence Lit(n); a number that is formatted into a string is  *)
(* the token that is the number itself; concatenation is \o.  SHA-256 is   *)
(* modelled as a collision-free digest: sha256(s) brackets its input, so   *)
(* two digests are equal exactly when their inputs are.  The only other    *)
(* thing the code asks of a digest, its count of leading zeros, is a fixed *)
(* function of the digest's content (LeadingZeros).                        *)
(***************************************************************************)
EXTENDS Integers, Sequences, FiniteSets, TLC

VARIABLES
    chain,        \* Blockchain.chain: Block[]
    utxoSet,      \* Blockchain.utxoSet: Map<string, UTXO>, in insertion order
    mempool,      \* Blockchain.mempool: Transaction[]
    difficulty,   \* Blockchain.difficulty
    genesisDone,  \* whether the un-awaited initializeGenesis() has completed
    now,          \* Date.now()
    accepted,     \* hashes of the transactions addTransaction has returned true for
    last,         \* the last call made on the ledger and what it returned
    inflight      \* the calls suspended at an await, each with its local variables

vars == <<chain, utxoSet, mempool, difficulty, genesisDone, now, accepted, last, inflight>>

-----------------------------------------------------------------------------
(* Bounds of the model *)

MaxChain == 3        \* blocks admitted through addBlock / mineBlock: chain length bound
MaxTxs == 2          \* transactions accepted by addTransaction over a run
MaxMempool == 2      \* pending transactions
MaxInputs == 5       \* inputs of a submitted transaction
MaxNow == 1          \* clock ticks
MaxPreGenesis == 1   \* blocks admitted before initializeGenesis completes

-----------------------------------------------------------------------------
(* Strings *)

Lit(n) == 0 - (1000 + n)

EMPTY == <<>>                       \* ''
SHA_OPEN == <<Lit(1)>>
SHA_CLOSE == <<Lit(2)>>
SLICE_OPEN == <<Lit(3)>>
SLICE_CLOSE == <<Lit(4)>>
S_public_ == <<Lit(5)>>             \* 'public_'
S_04 == <<Lit(6)>>                  \* '04'
S_underscore == <<Lit(7)>>          \* '_'
S_reverse_ == <<Lit(8)>>            \* 'reverse_'
S_colon == <<Lit(9)>>               \* ':'
S_coinbase_ == <<Lit(10)>>          \* 'coinbase_'
J_OBJ == <<Lit(11)>>                \* '{'
J_END == <<Lit(12)>>                \* '}'
J_ARR == <<Lit(13)>>                \* '['
J_ARR_END == <<Lit(14)>>            \* ']'
J_QUOTE == <<Lit(15)>>              \* '"'
J_COMMA == <<Lit(16)>>              \* ','
K_inputs == <<Lit(20)>>
K_outputs == <<Lit(21)>>
K_timestamp == <<Lit(22)>>
K_fee == <<Lit(23)>>
K_previousTxHash == <<Lit(24)>>
K_outputIndex == <<Lit(25)>>
K_publicKey == <<Lit(26)>>
K_amount == <<Lit(27)>>
K_recipientAddress == <<Lit(28)>>
K_version == <<Lit(29)>>
K_previousBlockHash == <<Lit(30)>>
K_merkleRoot == <<Lit(31)>>
K_difficulty == <<Lit(32)>>
K_nonce == <<Lit(33)>>

\* '0000...0000' (64 zeros): the coinbase previousTxHash and the genesis previousBlockHash
ZERO_HASH == <<Lit(40)>>
\* 0xFFFFFFFF, the coinbase output index (beyond TLC's integers: its 32-bit two's complement)
COINBASE_INDEX == -1
GENESIS_ADDRESS == <<Lit(41)>>      \* 'genesis_address_1a2b3c4d5e6f7890'
creatorAddress == <<Lit(42)>>       \* '1a964aaf3bc24324b1b9be5a2b115f2108ea309e'

JStr(s) == J_QUOTE \o s \o J_QUOTE
JNum(n) == <<n>>

-----------------------------------------------------------------------------
(* crypto *)

sha256(data) == SHA_OPEN \o data \o SHA_CLOSE

\* s.slice(0, n) of a digest s: a shorter string that still determines nothing else
Slice(s, n) == SLICE_OPEN \o <<n>> \o s \o SLICE_CLOSE

generatePublicKey(privateKey) == S_04 \o Slice(sha256(S_public_ \o privateKey), 62)

generateAddress(publicKey) == Slice(sha256(sha256(publicKey)), 40)

signMessage(message, privateKey) ==
    LET messageHash == sha256(message)
    IN  sha256(messageHash \o S_underscore \o privateKey)

getPrivateKeyFromPublic(publicKey) == sha256(S_reverse_ \o publicKey)

verifySignature(message, signature, publicKey) ==
    LET messageHash == sha256(message)
        expectedSignature ==
            sha256(messageHash \o S_underscore \o getPrivateKeyFromPublic(publicKey))
    IN  signature = expectedSignature

\* a level that carries the last element of an odd level up as it is
RECURSIVE PairLevel_promote(_, _)
PairLevel_promote(hashes, i) ==
    IF i > Len(hashes) THEN <<>>
    ELSE IF i + 1 <= Len(hashes)
         THEN <<sha256(hashes[i] \o hashes[i + 1])>> \o PairLevel_promote(hashes, i + 2)
    ELSE <<hashes[i]>>

RECURSIVE PairLevel(_, _)
PairLevel(hashes, i) ==
    IF i > Len(hashes) THEN <<>>
    ELSE LET left == hashes[i]
             right == IF i + 1 <= Len(hashes) THEN hashes[i + 1] ELSE left
         IN  <<sha256(left \o right)>> \o PairLevel(hashes, i + 2)

RECURSIVE calculateMerkleRoot(_)
calculateMerkleRoot(hashes) ==
    IF Len(hashes) = 0 THEN sha256(EMPTY)
    ELSE IF Len(hashes) = 1 THEN hashes[1]
    ELSE calculateMerkleRoot(PairLevel(hashes, 1))

\* The number of leading '0' characters of a digest: a fixed function of the digest's
\* content, sampled at a few positions (one of them the position of a header's nonce),
\* so that successive nonces give digests with different counts.
At(s, i) == IF i >= 1 /\ i <= Len(s) THEN s[i] ELSE 0

LeadingZeros(hash) ==
    LET n == Len(hash)
        c == (n + At(hash, n - 2) + At(hash, n - 6) + At(hash, (n + 1) \div 2)
                + At(hash, (n + 2) \div 3)) % 4
    IN  IF c = 0 THEN 2
        ELSE IF c = 2 THEN 1
        ELSE 0

isValidProofOfWork(hash, d) == LeadingZeros(hash) >= d

-----------------------------------------------------------------------------
(* JSON.stringify *)

RECURSIVE JJoin(_, _)
JJoin(items, i) ==
    IF i > Len(items) THEN <<>>
    ELSE (IF i > 1 THEN J_COMMA ELSE <<>>) \o items[i] \o JJoin(items, i + 1)

JArray(items) == J_ARR \o JJoin(items, 1) \o J_ARR_END

JInput(input) ==
    J_OBJ \o K_previousTxHash \o JStr(input.previousTxHash)
          \o K_outputIndex \o JNum(input.outputIndex)
          \o K_publicKey \o JStr(input.publicKey) \o J_END

JOutput(output) ==
    J_OBJ \o K_amount \o JNum(output.amount)
          \o K_recipientAddress \o JStr(output.recipientAddress) \o J_END

JTransactionData(tx) ==
    J_OBJ \o K_inputs \o JArray([i \in 1..Len(tx.inputs) |-> JInput(tx.inputs[i])])
          \o K_outputs \o JArray([i \in 1..Len(tx.outputs) |-> JOutput(tx.outputs[i])])
          \o K_timestamp \o JNum(tx.timestamp)
          \o K_fee \o JNum(tx.fee) \o J_END

JHeader(header) ==
    J_OBJ \o K_version \o JNum(header.version)
          \o K_previousBlockHash \o JStr(header.previousBlockHash)
          \o K_merkleRoot \o JStr(header.merkleRoot)
          \o K_timestamp \o JNum(header.timestamp)
          \o K_difficulty \o JNum(header.difficulty)
          \o K_nonce \o JNum(header.nonce) \o J_END

-----------------------------------------------------------------------------
(* Map<string, UTXO>: entries [key, value] in insertion order *)

MapHas(m, k) == \E i \in 1..Len(m) : m[i].key = k

MapGet(m, k) == m[CHOOSE i \in 1..Len(m) : m[i].key = k].value

MapSet(m, k, v) ==
    IF MapHas(m, k)
    THEN [i \in 1..Len(m) |-> IF m[i].key = k THEN [key |-> k, value |-> v] ELSE m[i]]
    ELSE Append(m, [key |-> k, value |-> v])

MapDelete(m, k) == SelectSeq(m, LAMBDA e : e.key # k)

MapValues(m) == [i \in 1..Len(m) |-> m[i].value]

\* `${txHash}:${outputIndex}`
UtxoKey(txHash, outputIndex) == txHash \o S_colon \o <<outputIndex>>

\* s[lo] + ... + s[hi], added up by halves (the amounts are integers, the order of
\* the additions does not show): a pool of a hundred fees is a nest seven deep
RECURSIVE SumRange(_, _, _)
SumRange(s, lo, hi) ==
    IF lo > hi THEN 0
    ELSE IF lo = hi THEN s[lo]
    ELSE SumRange(s, lo, (lo + hi) \div 2) + SumRange(s, (lo + hi) \div 2 + 1, hi)

\* Array.prototype.reduce((sum, x) => sum + x, 0) over the first i elements
SumSeq(s, i) == SumRange(s, 1, i)

-----------------------------------------------------------------------------
(* Transaction *)

Transaction(inputs, outputs, fee, t) ==
    [hash |-> EMPTY, timestamp |-> t, inputs |-> inputs, outputs |-> outputs, fee |-> fee]

getDataForSigning(tx) == JTransactionData(tx)

\* a calculateHash that serializes the inputs whole, signatures included
Transaction_calculateHash_signed(tx) ==
    [tx EXCEPT !.hash =
        sha256(JTransactionData(tx)
               \o JArray([i \in 1..Len(tx.inputs) |-> JStr(tx.inputs[i].signature)]))]

Transaction_calculateHash(tx) == [tx EXCEPT !.hash = sha256(JTransactionData(tx))]

\* a signInputs that signs what it can and tests the count afterwards
signInputs_late(tx, privateKeys) ==
    LET signed == [tx EXCEPT !.inputs =
                      [i \in 1..Len(tx.inputs) |->
                          IF i <= Len(privateKeys)
                          THEN [tx.inputs[i] EXCEPT
                                   !.signature = signMessage(getDataForSigning(tx), privateKeys[i])]
                          ELSE tx.inputs[i]]]
    IN  IF Len(privateKeys) # Len(tx.inputs)
        THEN [threw |-> TRUE, tx |-> signed]
        ELSE [threw |-> FALSE, tx |-> Transaction_calculateHash(signed)]

\* throws when the number of keys differs from the number of inputs
signInputs(tx, privateKeys) ==
    IF Len(privateKeys) # Len(tx.inputs)
    THEN [threw |-> TRUE, tx |-> tx]
    ELSE LET dataToSign == getDataForSigning(tx)
             signed == [tx EXCEPT !.inputs =
                          [i \in 1..Len(tx.inputs) |->
                              [tx.inputs[i] EXCEPT
                                  !.signature = signMessage(dataToSign, privateKeys[i])]]]
         IN  [threw |-> FALSE, tx |-> Transaction_calculateHash(signed)]

verifySignatures(tx) ==
    LET dataToSign == getDataForSigning(tx)
    IN  \A i \in 1..Len(tx.inputs) :
            verifySignature(dataToSign, tx.inputs[i].signature, tx.inputs[i].publicKey)

getTotalInputAmount(tx, utxos) ==
    SumSeq([i \in 1..Len(tx.inputs) |->
               LET utxoKey == UtxoKey(tx.inputs[i].previousTxHash, tx.inputs[i].outputIndex)
               IN  IF MapHas(utxos, utxoKey) THEN MapGet(utxos, utxoKey).output.amount ELSE 0],
           Len(tx.inputs))

getTotalOutputAmount(tx) ==
    SumSeq([i \in 1..Len(tx.outputs) |-> tx.outputs[i].amount], Len(tx.outputs))

\* isValid without the comparison of the input total with outputs plus fee
Transaction_isValid_unfunded(tx, utxos) ==
    IF Len(tx.inputs) = 0 \/ Len(tx.outputs) = 0 THEN FALSE
    ELSE IF ~verifySignatures(tx) THEN FALSE
    ELSE IF \E i \in 1..Len(tx.inputs) :
                ~MapHas(utxos, UtxoKey(tx.inputs[i].previousTxHash, tx.inputs[i].outputIndex))
         THEN FALSE
    ELSE IF \E i \in 1..Len(tx.outputs) : tx.outputs[i].amount <= 0 THEN FALSE
    ELSE TRUE

\* isValid that refuses negative output amounts only
Transaction_isValid_zeroOutput(tx, utxos) ==
    IF Len(tx.inputs) = 0 \/ Len(tx.outputs) = 0 THEN FALSE
    ELSE IF ~verifySignatures(tx) THEN FALSE
    ELSE IF \E i \in 1..Len(tx.inputs) :
                ~MapHas(utxos, UtxoKey(tx.inputs[i].previousTxHash, tx.inputs[i].outputIndex))
         THEN FALSE
    ELSE IF getTotalInputAmount(tx, utxos) < getTotalOutputAmount(tx) + tx.fee THEN FALSE
    ELSE IF \E i \in 1..Len(tx.outputs) : tx.outputs[i].amount < 0 THEN FALSE
    ELSE TRUE

\* isValid that exempts coinbase-shaped transactions from every check
Transaction_isValid_coinbaseExempt(tx, utxos) ==
    IF Len(tx.inputs) = 0 \/ Len(tx.outputs) = 0 THEN FALSE
    ELSE IF /\ Len(tx.inputs) = 1
            /\ tx.inputs[1].previousTxHash = ZERO_HASH
            /\ tx.inputs[1].outputIndex = COINBASE_INDEX
         THEN TRUE
    ELSE IF ~verifySignatures(tx) THEN FALSE
    ELSE IF \E i \in 1..Len(tx.inputs) :
                ~MapHas(utxos, UtxoKey(tx.inputs[i].previousTxHash, tx.inputs[i].outputIndex))
         THEN FALSE
    ELSE IF getTotalInputAmount(tx, utxos) < getTotalOutputAmount(tx) + tx.fee THEN FALSE
    ELSE IF \E i \in 1..Len(tx.outputs) : tx.outputs[i].amount <= 0 THEN FALSE
    ELSE TRUE

Transaction_isValid(tx, utxos) ==
    IF Len(tx.inputs) = 0 \/ Len(tx.outputs) = 0 THEN FALSE
    ELSE IF ~verifySignatures(tx) THEN FALSE
    ELSE IF \E i \in 1..Len(tx.inputs) :
                ~MapHas(utxos, UtxoKey(tx.inputs[i].previousTxHash, tx.inputs[i].outputIndex))
         THEN FALSE
    ELSE IF getTotalInputAmount(tx, utxos) < getTotalOutputAmount(tx) + tx.fee THEN FALSE
    ELSE IF \E i \in 1..Len(tx.outputs) : tx.outputs[i].amount <= 0 THEN FALSE
    ELSE TRUE

isCoinbase(tx) ==
    /\ Len(tx.inputs) = 1
    /\ tx.inputs[1].previousTxHash = ZERO_HASH
    /\ tx.inputs[1].outputIndex = COINBASE_INDEX

createCoinbase(minerAddress, blockHeight, reward, t) ==
    LET coinbaseInput == [previousTxHash |-> ZERO_HASH,
                          outputIndex |-> COINBASE_INDEX,
                          signature |-> S_coinbase_ \o <<blockHeight>>,
                          publicKey |-> S_coinbase_ \o <<blockHeight>>]
        coinbaseOutput == [amount |-> reward, recipientAddress |-> minerAddress]
    IN  Transaction_calculateHash(Transaction(<<coinbaseInput>>, <<coinbaseOutput>>, 0, t))

-----------------------------------------------------------------------------
(* Block *)

\* an optional value (undefined | T) is a sequence of length 0 or 1
None == <<>>
Some(x) == <<x>>

MINING_CEILING == 1000000
TIMESTAMP_REFRESH == 10000
TWO_HOURS == 2 * 60 * 60 * 1000

Block(previousBlockHash, transactions, blockDifficulty, height, t) ==
    [hash |-> EMPTY,
     header |-> [version |-> 1,
                 previousBlockHash |-> previousBlockHash,
                 merkleRoot |-> EMPTY,
                 timestamp |-> t,
                 difficulty |-> blockDifficulty,
                 nonce |-> 0],
     transactions |-> transactions,
     height |-> height]

Block_calculateMerkleRoot(block) ==
    IF Len(block.transactions) = 0
    THEN [block EXCEPT !.header.merkleRoot = sha256(EMPTY)]
    ELSE LET hashed == [i \in 1..Len(block.transactions) |->
                           IF block.transactions[i].hash = EMPTY
                           THEN Transaction_calculateHash(block.transactions[i])
                           ELSE block.transactions[i]]
             txHashes == [i \in 1..Len(hashed) |-> hashed[i].hash]
         IN  [block EXCEPT !.transactions = hashed,
                           !.header.merkleRoot = calculateMerkleRoot(txHashes)]

StoreHash(b) == [b EXCEPT !.hash = sha256(JHeader(b.header))]

Block_calculateHash(block) == StoreHash(Block_calculateMerkleRoot(block))

\* The nonce search.  No digest of the model has more than two leading zeros, so a
\* search at a higher difficulty runs into the attempt ceiling; it is not unrolled.
RECURSIVE MineLoop(_, _, _)
\* one turn of the loop, b being the block with the hash of the current nonce
MineAttempt(b, n, t) ==
    IF isValidProofOfWork(b.hash, b.header.difficulty)
    THEN [threw |-> FALSE, block |-> b]
    ELSE IF n > MINING_CEILING
         THEN [threw |-> TRUE,
               block |-> [b EXCEPT !.header.nonce = @ + 1,
                                   !.header.timestamp =
                                       IF n % TIMESTAMP_REFRESH = 0 /\ n > 0 THEN t ELSE @]]
    ELSE MineLoop([b EXCEPT !.header.nonce = @ + 1,
                            !.header.timestamp =
                                IF n % TIMESTAMP_REFRESH = 0 /\ n > 0 THEN t ELSE @],
                  n, t)

MineLoop(block, attempts, t) == MineAttempt(Block_calculateHash(block), attempts + 1, t)

mine(block, t) ==
    IF block.header.difficulty > 2
    THEN [threw |-> TRUE,
          block |-> [Block_calculateHash(block) EXCEPT
                        !.header.nonce = @ + MINING_CEILING + 1,
                        !.header.timestamp = t]]
    ELSE MineLoop(Block_calculateMerkleRoot(block), 0, t)

\* The checks of isValid, b1 being the block after calculateHash() and b2 the block
\* after the calculateMerkleRoot() that follows (both store what they compute).
Block_isValid_checks(b1, b2, previousBlock, t) ==
    LET calculatedHash == b1.hash
        calculatedMerkleRoot == b2.header.merkleRoot
        txs == b2.transactions
        valid ==
            IF calculatedHash # b1.hash THEN FALSE
            ELSE IF ~isValidProofOfWork(b1.hash, b1.header.difficulty) THEN FALSE
            ELSE IF calculatedMerkleRoot # b2.header.merkleRoot THEN FALSE
            ELSE IF previousBlock # None
                    /\ b2.header.previousBlockHash # previousBlock[1].hash THEN FALSE
            ELSE IF b2.header.timestamp > t + TWO_HOURS THEN FALSE
            ELSE IF Len(txs) = 0 THEN FALSE
            ELSE IF ~isCoinbase(txs[1]) THEN FALSE
            ELSE IF \E i \in 2..Len(txs) : isCoinbase(txs[i]) THEN FALSE
            ELSE TRUE
    IN  [valid |-> valid, block |-> b2]

Block_isValid_hashed(b1, previousBlock, t) ==
    Block_isValid_checks(b1, Block_calculateMerkleRoot(b1), previousBlock, t)

\* Returns the verdict and the block as the validation leaves it.
Block_isValid(block, previousBlock, t) ==
    Block_isValid_hashed(Block_calculateHash(block), previousBlock, t)

createGenesisBlock(genesisDifficulty, creator, allocation, t) ==
    LET genesisTransaction == createCoinbase(GENESIS_ADDRESS, 0, 50, t)
        transactions ==
            IF creator # EMPTY /\ allocation # 0
            THEN <<genesisTransaction, createCoinbase(creator, 0, allocation, t)>>
            ELSE <<genesisTransaction>>
    IN  mine(Block(ZERO_HASH, transactions, genesisDifficulty, 0, t), t).block

-----------------------------------------------------------------------------
(* Blockchain: a ledger value is [chain, utxoSet, mempool, difficulty] *)

miningReward == 50
maxSupply == 21000000
creatorAllocation == 1000000
targetBlockTime == 5000
difficultyAdjustmentInterval == 10
MEMPOOL_SLICE == 100

Ledger == [chain |-> chain, utxoSet |-> utxoSet, mempool |-> mempool,
           difficulty |-> difficulty]

getLatestBlock(L) == IF Len(L.chain) = 0 THEN None ELSE Some(L.chain[Len(L.chain)])

getHeight(L) == Len(L.chain) - 1

getTotalSupply(L) ==
    SumSeq([i \in 1..Len(L.utxoSet) |-> L.utxoSet[i].value.output.amount], Len(L.utxoSet))

getUtxosForAddress(L, address) ==
    SelectSeq(MapValues(L.utxoSet), LAMBDA u : u.output.recipientAddress = address)

getBalance(L, address) ==
    LET own == getUtxosForAddress(L, address)
    IN  SumSeq([i \in 1..Len(own) |-> own[i].output.amount], Len(own))

\* the outputs of one transaction, added under `${tx.hash}:${i}` (i counts from 0)
RECURSIVE AddOutputs(_, _, _, _)
AddOutputs(utxos, tx, blockHeight, i) ==
    IF i > Len(tx.outputs) THEN utxos
    ELSE AddOutputs(MapSet(utxos, UtxoKey(tx.hash, i - 1),
                           [txHash |-> tx.hash, outputIndex |-> i - 1,
                            output |-> tx.outputs[i], blockHeight |-> blockHeight]),
                    tx, blockHeight, i + 1)

RECURSIVE DeleteInputs(_, _, _)
DeleteInputs(utxos, tx, i) ==
    IF i > Len(tx.inputs) THEN utxos
    ELSE DeleteInputs(MapDelete(utxos, UtxoKey(tx.inputs[i].previousTxHash,
                                               tx.inputs[i].outputIndex)),
                      tx, i + 1)

RECURSIVE UpdateFrom(_, _, _)
UpdateFrom(utxos, block, i) ==
    \* (the map is measured at every turn so that it is built turn by turn, and
    \* not in one nest as deep as the block is long)
    IF Len(utxos) >= 0 /\ i > Len(block.transactions) THEN utxos
    ELSE LET tx == block.transactions[i]
             spent == IF ~isCoinbase(tx) THEN DeleteInputs(utxos, tx, 1) ELSE utxos
         IN  UpdateFrom(AddOutputs(spent, tx, block.height, 1), block, i + 1)

updateUtxoSet(utxos, block) == UpdateFrom(utxos, block, 1)

\* a removal that empties the pool
removeMinedTransactions_clear(pool, block) == <<>>

removeMinedTransactions(pool, block) ==
    LET minedTxHashes == {block.transactions[i].hash : i \in 1..Len(block.transactions)}
    IN  SelectSeq(pool, LAMBDA tx : tx.hash \notin minedTxHashes)

\* ratio = timeActual / timeExpected; ratio < 0.25 and ratio > 4 are compared exactly
\* adjustDifficulty that decrements without the floor of 1
adjustDifficulty_noFloor(L) ==
    IF Len(L.chain) % difficultyAdjustmentInterval # 0 THEN L.difficulty
    ELSE LET startBlock == L.chain[Len(L.chain) - difficultyAdjustmentInterval + 1]
             endBlock == L.chain[Len(L.chain)]
             timeExpected == targetBlockTime * difficultyAdjustmentInterval
             timeActual == endBlock.header.timestamp - startBlock.header.timestamp
         IN  IF 4 * timeActual < timeExpected THEN L.difficulty + 1
             ELSE IF timeActual > 4 * timeExpected THEN L.difficulty - 1
             ELSE L.difficulty

adjustDifficulty(L) ==
    IF Len(L.chain) % difficultyAdjustmentInterval # 0 THEN L.difficulty
    ELSE LET startBlock == L.chain[Len(L.chain) - difficultyAdjustmentInterval + 1]
             endBlock == L.chain[Len(L.chain)]
             timeExpected == targetBlockTime * difficultyAdjustmentInterval
             timeActual == endBlock.header.timestamp - startBlock.header.timestamp
         IN  IF 4 * timeActual < timeExpected THEN L.difficulty + 1
             ELSE IF timeActual > 4 * timeExpected
                  THEN (IF L.difficulty - 1 > 1 THEN L.difficulty - 1 ELSE 1)
             ELSE L.difficulty

\* the genesis block is pushed without validation; its outputs get blockHeight 0
RECURSIVE GenesisOutputs(_, _, _)
GenesisOutputs(utxos, genesisBlock, i) ==
    IF i > Len(genesisBlock.transactions) THEN utxos
    ELSE GenesisOutputs(AddOutputs(utxos, genesisBlock.transactions[i], 0, 1),
                        genesisBlock, i + 1)

initializeGenesis(L, genesisBlock) ==
    [L EXCEPT !.chain = Append(@, genesisBlock),
              !.utxoSet = GenesisOutputs(@, genesisBlock, 1)]

\* addBlock from chain.push up to the await of updateUtxoSet (which has no await inside)
addBlock_push(L, blk) ==
    [L EXCEPT !.chain = Append(@, blk), !.utxoSet = updateUtxoSet(@, blk)]

\* addBlock after that await: removeMinedTransactions and adjustDifficulty
addBlock_finish(L, blk) ==
    [L EXCEPT !.mempool = removeMinedTransactions(@, blk), !.difficulty = adjustDifficulty(L)]

\* addBlock that appends the block before it validates the block's transactions
addBlock_pushFirst(L, checked) ==
    LET blk == checked.block
        pushed == [L EXCEPT !.chain = Append(@, blk)]
    IN  IF ~checked.valid THEN [ok |-> FALSE, ledger |-> L]
        ELSE IF \E i \in 2..Len(blk.transactions) :
                    ~Transaction_isValid(blk.transactions[i], L.utxoSet)
             THEN [ok |-> FALSE, ledger |-> pushed]
        ELSE [ok |-> TRUE,
              ledger |-> [chain |-> pushed.chain,
                          utxoSet |-> updateUtxoSet(L.utxoSet, blk),
                          mempool |-> removeMinedTransactions(L.mempool, blk),
                          difficulty |-> adjustDifficulty(pushed)]]

\* addBlock once newBlock.isValid(previousBlock) has returned `checked`
addBlock_checked(L, checked) ==
    LET blk == checked.block
    IN  IF ~checked.valid THEN [ok |-> FALSE, ledger |-> L]
        ELSE IF \E i \in 2..Len(blk.transactions) :
                    ~Transaction_isValid(blk.transactions[i], L.utxoSet)
             THEN [ok |-> FALSE, ledger |-> L]
        ELSE [ok |-> TRUE, ledger |-> addBlock_finish(addBlock_push(L, blk), blk)]

addBlock(L, newBlock, t) ==
    addBlock_checked(L, Block_isValid(newBlock, getLatestBlock(L), t))

totalFees(L) == SumSeq([i \in 1..Len(L.mempool) |-> L.mempool[i].fee], Len(L.mempool))

coinbaseReward(currentSupply, reward) ==
    IF currentSupply + reward > maxSupply THEN maxSupply - currentSupply ELSE reward

blockTransactions(L, minerAddress, t) ==
    <<createCoinbase(minerAddress, getHeight(L) + 1,
                     coinbaseReward(getTotalSupply(L), miningReward + totalFees(L)), t)>>
    \o SubSeq(L.mempool, 1,
              IF Len(L.mempool) < MEMPOOL_SLICE THEN Len(L.mempool) ELSE MEMPOOL_SLICE)

mineBlock_added(L, added) ==
    IF added.ok THEN [result |-> "block", ledger |-> added.ledger]
    ELSE [result |-> "null", ledger |-> L]

mineBlock_mined(L, mined, t) ==
    IF mined.threw THEN [result |-> "null", ledger |-> L]
    ELSE mineBlock_added(L, addBlock(L, mined.block, t))

\* The block's transactions are the mempool's objects: the hash that
\* Block.calculateMerkleRoot computes for a transaction without one is stored in the
\* pending transaction itself.
HashThrough(pool, txs) ==
    [i \in 1..Len(pool) |->
        IF pool[i].hash = EMPTY /\ \E j \in 1..Len(txs) : txs[j] = pool[i]
        THEN Transaction_calculateHash(pool[i])
        ELSE pool[i]]

mineBlock_draft(L, minerAddress, t) ==
    Block(getLatestBlock(L)[1].hash, blockTransactions(L, minerAddress, t),
          L.difficulty, getHeight(L) + 1, t)

mineBlock_drafted(L, draft, t) ==
    mineBlock_mined([L EXCEPT !.mempool = HashThrough(@, draft.transactions)],
                    mine(draft, t), t)

\* result is "block" (the admitted block is the new head), "null" or "throw"
mineBlock(L, minerAddress, t) ==
    IF getTotalSupply(L) >= maxSupply THEN [result |-> "null", ledger |-> L]
    ELSE IF getLatestBlock(L) = None THEN [result |-> "throw", ledger |-> L]
    ELSE mineBlock_drafted(L, mineBlock_draft(L, minerAddress, t), t)

\* addTransaction without the check for a pending transaction of the same hash
addTransaction_noDuplicateCheck(L, transaction) ==
    IF ~Transaction_isValid(transaction, L.utxoSet) THEN [ok |-> FALSE, ledger |-> L]
    ELSE [ok |-> TRUE, ledger |-> [L EXCEPT !.mempool = Append(@, transaction)]]

\* addTransaction once transaction.isValid(utxoSet) has returned `valid`
addTransaction_validated(L, transaction, valid) ==
    IF ~valid THEN [ok |-> FALSE, ledger |-> L]
    ELSE IF \E i \in 1..Len(L.mempool) : L.mempool[i].hash = transaction.hash
         THEN [ok |-> FALSE, ledger |-> L]
    ELSE [ok |-> TRUE, ledger |-> [L EXCEPT !.mempool = Append(@, transaction)]]

addTransaction(L, transaction) ==
    addTransaction_validated(L, transaction, Transaction_isValid(transaction, L.utxoSet))

-----------------------------------------------------------------------------
(* Wallet *)

Wallet(privateKey) ==
    [privateKey |-> privateKey,
     publicKey |-> generatePublicKey(privateKey),
     address |-> generateAddress(generatePublicKey(privateKey))]

\* Array.prototype.sort((a, b) => a.blockHeight - b.blockHeight): stable
RECURSIVE InsertByHeight(_, _)
InsertByHeight(sorted, u) ==
    IF Len(sorted) = 0 THEN <<u>>
    ELSE IF sorted[Len(sorted)].blockHeight <= u.blockHeight THEN Append(sorted, u)
    ELSE Append(InsertByHeight(SubSeq(sorted, 1, Len(sorted) - 1), u), sorted[Len(sorted)])

RECURSIVE SortByHeight(_, _)
SortByHeight(utxos, i) ==
    IF i = 0 THEN <<>> ELSE InsertByHeight(SortByHeight(utxos, i - 1), utxos[i])

\* a selection loop that never leaves early
SelectUtxos_noBreak(sorted, i, selectedAmount, needed) == SubSeq(sorted, i, Len(sorted))

\* oldest first, until the running total covers amount + fee
RECURSIVE SelectUtxos(_, _, _, _)
SelectUtxos(sorted, i, selectedAmount, needed) ==
    IF i > Len(sorted) THEN <<>>
    ELSE IF selectedAmount + sorted[i].output.amount >= needed THEN <<sorted[i]>>
    ELSE <<sorted[i]>> \o SelectUtxos(sorted, i + 1,
                                      selectedAmount + sorted[i].output.amount, needed)

\* a change output also when nothing is left over
changeOutput_always(wallet, change) ==
    IF change >= 0
    THEN <<[amount |-> change, recipientAddress |-> wallet.address]>>
    ELSE <<>>

\* the change back to the wallet's own address, if any
changeOutput(wallet, change) ==
    IF change > 0
    THEN <<[amount |-> change, recipientAddress |-> wallet.address]>>
    ELSE <<>>

\* None (null) or Some(transaction)
createTransaction(wallet, recipientAddress, amount, fee, L, t) ==
    LET availableUtxos == getUtxosForAddress(L, wallet.address)
        totalAvailable == SumSeq([i \in 1..Len(availableUtxos) |->
                                     availableUtxos[i].output.amount], Len(availableUtxos))
        selectedUtxos == SelectUtxos(SortByHeight(availableUtxos, Len(availableUtxos)),
                                     1, 0, amount + fee)
        selectedAmount == SumSeq([i \in 1..Len(selectedUtxos) |->
                                     selectedUtxos[i].output.amount], Len(selectedUtxos))
        inputs == [i \in 1..Len(selectedUtxos) |->
                      [previousTxHash |-> selectedUtxos[i].txHash,
                       outputIndex |-> selectedUtxos[i].outputIndex,
                       signature |-> EMPTY,
                       publicKey |-> wallet.publicKey]]
        outputs == <<[amount |-> amount, recipientAddress |-> recipientAddress]>>
                   \o changeOutput(wallet, selectedAmount - amount - fee)
        privateKeys == [i \in 1..Len(inputs) |-> wallet.privateKey]
    IN  IF Len(availableUtxos) = 0 THEN None
        ELSE IF totalAvailable < amount + fee THEN None
        ELSE Some(signInputs(Transaction(inputs, outputs, fee, t), privateKeys).tx)

\* a send that puts the built transaction into the pool itself
sendTransaction_direct(wallet, recipientAddress, amount, fee, L, t) ==
    IF createTransaction(wallet, recipientAddress, amount, fee, L, t) = None
    THEN [ok |-> FALSE, ledger |-> L]
    ELSE [ok |-> TRUE,
          ledger |-> [L EXCEPT !.mempool =
                         Append(@, createTransaction(wallet, recipientAddress, amount, fee, L, t)[1])]]

sendTransaction(wallet, recipientAddress, amount, fee, L, t) ==
    LET transaction == createTransaction(wallet, recipientAddress, amount, fee, L, t)
    IN  IF transaction = None THEN [ok |-> FALSE, ledger |-> L]
        ELSE addTransaction(L, transaction[1])

-----------------------------------------------------------------------------
(* The callers: wallets, and the transactions and blocks handed to the ledger *)

walletA == Wallet(<<Lit(50)>>)
walletB == Wallet(<<Lit(51)>>)
walletC == Wallet(<<Lit(52)>>)
Wallets == {walletA, walletB}
Miners == {walletA.address, walletC.address}
SendAmounts == {10}
SendFees == {1}

\* A party without any private key: it gives every input the signature that
\* verifySignature recomputes from the public key alone.
ForgeSignatures(tx) ==
    LET data == getDataForSigning(tx)
    IN  Transaction_calculateHash(
            [tx EXCEPT !.inputs =
                [i \in 1..Len(tx.inputs) |->
                    [tx.inputs[i] EXCEPT !.signature =
                        sha256(sha256(data) \o S_underscore
                               \o getPrivateKeyFromPublic(tx.inputs[i].publicKey))]]])

InputFor(u, publicKey) ==
    [previousTxHash |-> u.txHash, outputIndex |-> u.outputIndex,
     signature |-> EMPTY, publicKey |-> publicKey]

\* spends UTXO u, listed `copies` times, paying everything but the fee to `to`
SpendTx(u, copies, to, fee, t) ==
    ForgeSignatures(Transaction([i \in 1..copies |-> InputFor(u, walletC.publicKey)],
                                <<[amount |-> copies * u.output.amount - fee,
                                   recipientAddress |-> to]>>,
                                fee, t))

SpendShapes == {[copies |-> 1, to |-> walletB.address, fee |-> 1],
                [copies |-> MaxInputs, to |-> walletA.address, fee |-> 0]}

GoodTxs == {SpendTx(utxoSet[i].value, sh.copies, sh.to, sh.fee, now) :
               i \in 1..Len(utxoSet), sh \in SpendShapes}

\* transactions that Transaction.isValid must refuse
BadTxsOn(u, t) ==
    { Transaction_calculateHash(
          Transaction(<<InputFor(u, walletC.publicKey)>>,
                      <<[amount |-> u.output.amount, recipientAddress |-> walletB.address]>>,
                      0, t)),
      ForgeSignatures(
          Transaction(<<InputFor(u, walletC.publicKey)>>,
                      <<[amount |-> u.output.amount + 1, recipientAddress |-> walletB.address]>>,
                      0, t)),
      ForgeSignatures(
          Transaction(<<InputFor(u, walletC.publicKey)>>,
                      <<[amount |-> 0, recipientAddress |-> walletB.address]>>,
                      0, t)),
      ForgeSignatures(
          Transaction(<<InputFor([u EXCEPT !.outputIndex = @ + 7], walletC.publicKey)>>,
                      <<[amount |-> u.output.amount, recipientAddress |-> walletB.address]>>,
                      0, t)),
      ForgeSignatures(
          Transaction(<<InputFor(u, walletC.publicKey)>>, <<>>, 0, t)) }

BadTxs ==
    { ForgeSignatures(Transaction(<<>>, <<[amount |-> 1, recipientAddress |-> walletB.address]>>,
                                  0, now)),
      createCoinbase(walletB.address, Len(chain), miningReward, now) }
    \cup (IF Len(utxoSet) = 0 THEN {} ELSE BadTxsOn(utxoSet[1].value, now))

SubmittedTxs == GoodTxs \cup BadTxs

ChainTxs ==
    UNION {{chain[i].transactions[j] : j \in 1..Len(chain[i].transactions)} :
              i \in 1..Len(chain)}

ChainCoinbases == {tx \in ChainTxs : isCoinbase(tx)}

HeadHash == IF Len(chain) = 0 THEN ZERO_HASH ELSE chain[Len(chain)].hash

\* a block a caller assembles on the current head and mines before handing it to addBlock
MinedOn(previousBlockHash, transactions) ==
    mine(Block(previousBlockHash, transactions, difficulty, Len(chain), now), now).block

FreshCoinbase == createCoinbase(walletC.address, Len(chain), miningReward, now)

\* what the callers of addBlock assemble: a previous hash and a list of transactions
ExternalShapes ==
    {[shape |-> "fresh", prev |-> HeadHash, txs |-> <<FreshCoinbase>>],
     [shape |-> "badPrev", prev |-> SHA_OPEN \o SHA_CLOSE, txs |-> <<FreshCoinbase>>],
     [shape |-> "twoCoinbase", prev |-> HeadHash,
      txs |-> <<FreshCoinbase, createCoinbase(walletB.address, Len(chain), 1, now)>>]}
    \cup {[shape |-> "replay", prev |-> HeadHash, txs |-> <<c>>] : c \in ChainCoinbases}
    \cup {[shape |-> "replaySpend", prev |-> HeadHash,
           txs |-> <<c, SpendTx(MapGet(utxoSet, UtxoKey(c.hash, 0)), 1,
                                walletB.address, 1, now)>>] :
             c \in {x \in ChainCoinbases : MapHas(utxoSet, UtxoKey(x.hash, 0))}}
    \cup (IF Len(utxoSet) = 0 THEN {}
          ELSE {[shape |-> "noCoinbase", prev |-> HeadHash,
                 txs |-> <<SpendTx(utxoSet[1].value, 1, walletB.address, 1, now)>>]}
               \cup {[shape |-> "invalidTx", prev |-> HeadHash, txs |-> <<FreshCoinbase, tx>>] :
                        tx \in BadTxsOn(utxoSet[1].value, now)})

\* a mined block whose stored hash, or stored merkle root, was overwritten afterwards
TamperedBlocks ==
    {[shape |-> "wrongHash",
      block |-> [MinedOn(HeadHash, <<FreshCoinbase>>) EXCEPT !.hash = ZERO_HASH]],
     [shape |-> "wrongMerkleRoot",
      block |-> [MinedOn(HeadHash, <<FreshCoinbase>>) EXCEPT !.header.merkleRoot = ZERO_HASH]]}

ExternalBlocks ==
    {[shape |-> e.shape, block |-> MinedOn(e.prev, e.txs)] : e \in ExternalShapes}
    \cup TamperedBlocks

-----------------------------------------------------------------------------
(* The state machine *)

\* new Blockchain() has returned: initializeGenesis() was started and not awaited.  It
\* created and is mining the genesis block, with the difficulty and the clock of then.
GenesisBlock == createGenesisBlock(1, creatorAddress, creatorAllocation, 0)

Call(op, result, arg) == [op |-> op, result |-> result, arg |-> arg]

Init ==
    /\ chain = <<>>
    /\ utxoSet = <<>>
    /\ mempool = <<>>
    /\ difficulty = 1
    /\ genesisDone = FALSE
    /\ now = 0
    /\ accepted = {}
    /\ last = Call("new", "done", EMPTY)
    /\ inflight = <<>>

SetLedger(L) ==
    /\ chain' = L.chain
    /\ utxoSet' = L.utxoSet
    /\ mempool' = L.mempool
    /\ difficulty' = L.difficulty

\* a caller may act while the genesis block is still being mined
Callable == genesisDone \/ Len(chain) < MaxPreGenesis

InitializeGenesis ==
    /\ ~genesisDone
    /\ SetLedger(initializeGenesis(Ledger, GenesisBlock))
    /\ genesisDone' = TRUE
    /\ last' = Call("initializeGenesis", "done", EMPTY)
    /\ UNCHANGED <<now, accepted, inflight>>

MineBlock ==
    /\ Callable
    /\ Len(chain) < MaxChain
    /\ \E minerAddress \in Miners :
          \E r \in {mineBlock(Ledger, minerAddress, now)} :
              /\ SetLedger(r.ledger)
              /\ last' = Call("mineBlock", r.result, minerAddress)
    /\ UNCHANGED <<genesisDone, now, accepted, inflight>>

AddBlock ==
    /\ Callable
    /\ Len(chain) < MaxChain
    /\ \E e \in ExternalBlocks :
          \E r \in {addBlock(Ledger, e.block, now)} :
              /\ SetLedger(r.ledger)
              /\ last' = Call("addBlock", IF r.ok THEN "true" ELSE "false", e.shape)
    /\ UNCHANGED <<genesisDone, now, accepted, inflight>>

AddTransaction ==
    /\ Callable
    /\ Len(chain) < MaxChain
    /\ Len(mempool) < MaxMempool
    /\ Cardinality(accepted) < MaxTxs
    /\ \E tx \in SubmittedTxs :
          \E r \in {addTransaction(Ledger, tx)} :
              /\ SetLedger(r.ledger)
              /\ accepted' = IF r.ok THEN accepted \cup {tx.hash} ELSE accepted
              /\ last' = Call("addTransaction", IF r.ok THEN "true" ELSE "false",
                              IF r.ok THEN tx.hash ELSE EMPTY)
    /\ UNCHANGED <<genesisDone, now, inflight>>

SendTransaction ==
    /\ Callable
    /\ Len(chain) < MaxChain
    /\ Len(mempool) < MaxMempool
    /\ Cardinality(accepted) < MaxTxs
    /\ \E w \in Wallets, to \in {walletA.address, walletB.address},
          amount \in SendAmounts, fee \in SendFees :
          \E r \in {sendTransaction(w, to, amount, fee, Ledger, now)},
             sent \in {createTransaction(w, to, amount, fee, Ledger, now)} :
              /\ w.address # to
              /\ SetLedger(r.ledger)
              /\ accepted' = IF r.ok THEN accepted \cup {sent[1].hash} ELSE accepted
              /\ last' = Call("sendTransaction", IF r.ok THEN "true" ELSE "false",
                              [from |-> w.address, to |-> to, amount |-> amount, fee |-> fee,
                               built |-> sent # None])
    /\ UNCHANGED <<genesisDone, now, inflight>>

Tick ==
    /\ now < MaxNow
    /\ now' = now + 1
    /\ UNCHANGED <<chain, utxoSet, mempool, difficulty, genesisDone, accepted, last, inflight>>

Next ==
    \/ InitializeGenesis
    \/ MineBlock
    \/ AddBlock
    \/ AddTransaction
    \/ SendTransaction
    \/ Tick

Spec == Init /\ [][Next]_vars

\* the ledger driven only through mineBlock, addTransaction and the wallet
NextCalls ==
    \/ InitializeGenesis
    \/ MineBlock
    \/ AddTransaction
    \/ SendTransaction
    \/ Tick

SpecCalls == Init /\ [][NextCalls]_vars

-----------------------------------------------------------------------------
(* Vocabulary of the properties *)

InputRefs(tx) ==
    {UtxoKey(tx.inputs[i].previousTxHash, tx.inputs[i].outputIndex) : i \in 1..Len(tx.inputs)}

OutputKeys(tx) == {UtxoKey(tx.hash, i - 1) : i \in 1..Len(tx.outputs)}

UtxoKeys == {utxoSet[i].key : i \in 1..Len(utxoSet)}

LatestBlock == chain[Len(chain)]

\* the last call was an addBlock (direct, or made by mineBlock) that returned true
Admitted ==
    \/ last.op = "addBlock" /\ last.result = "true"
    \/ last.op = "mineBlock" /\ last.result = "block"

-----------------------------------------------------------------------------
(* C1: in every state reached from genesis by mineBlock and addTransaction calls, the
   total circulating supply (the sum of all UTXO amounts) is at most maxSupply. *)
C1_SupplyCap == getTotalSupply(Ledger) <= maxSupply

(* C2: of two distinct transactions accepted by addTransaction that spend the same
   UTXO, no block of the chain contains both. *)
C2_DoubleSpendRejected ==
    \A b \in 1..Len(chain) :
        \A i, j \in 2..Len(chain[b].transactions) :
            LET t1 == chain[b].transactions[i]
                t2 == chain[b].transactions[j]
            IN  (i < j /\ t1.hash # t2.hash /\ {t1.hash, t2.hash} \subseteq accepted)
                    => InputRefs(t1) \cap InputRefs(t2) = {}

(* C3: an addBlock call that returns false, whether made directly or by mineBlock
   (which then returns null), leaves chain, UTXO set, mempool and difficulty as they
   were. *)
C3_AdmissionAtomicity ==
    [][ ( \/ last'.op = "addBlock" /\ last'.result = "false"
          \/ last'.op = "mineBlock" /\ last'.result = "null" )
        => UNCHANGED <<chain, utxoSet, mempool, difficulty>> ]_vars

\* an addBlock call has failed on a transaction of the block, with a block in the
\* chain and a transaction pending
C3_Witness ==
    /\ last.op = "addBlock" /\ last.result = "false" /\ last.arg = "invalidTx"
    /\ Len(chain) >= 2
    /\ Len(mempool) >= 1

(* C4: verifySignature(m, signMessage(m, sk), generatePublicKey(sk)) is true, so a
   transaction built and signed by a wallet passes verifySignatures. *)
C4_SignVerifyRoundTrip ==
    \A w \in Wallets, to \in {walletA.address, walletB.address} :
        LET built == createTransaction(w, to, 10, 1, Ledger, now)
        IN  (w.address # to /\ built # None) =>
                /\ verifySignature(getDataForSigning(built[1]),
                                   signMessage(getDataForSigning(built[1]), w.privateKey),
                                   generatePublicKey(w.privateKey))
                /\ verifySignatures(built[1])

(* C5: after genesis and one block mined to A with an empty mempool, getBalance(A) is
   50; A's wallet transaction of 10 to B with fee 1 is then accepted by addTransaction;
   and once a second block is mined to a third address, getBalance(B) = 10,
   getBalance(A) = 39 and the transaction is no longer pending. *)
C5_AfterFirstBlock ==
    /\ genesisDone
    /\ Len(chain) >= 2
    /\ chain[1] = GenesisBlock
    /\ Len(chain[2].transactions) = 1
    /\ chain[2].transactions[1].outputs[1].recipientAddress = walletA.address

C5_WalletSpend(tx) ==
    /\ Len(tx.inputs) >= 1
    /\ tx.inputs[1].publicKey = walletA.publicKey
    /\ tx.outputs[1] = [amount |-> 10, recipientAddress |-> walletB.address]
    /\ tx.fee = 1

C5_MineAndSpend ==
    /\ (C5_AfterFirstBlock /\ Len(chain) = 2 /\ accepted = {}) =>
            getBalance(Ledger, walletA.address) = 50
    /\ ( /\ C5_AfterFirstBlock /\ Len(chain) = 2
         /\ last.op = "sendTransaction"
         /\ last.arg = [from |-> walletA.address, to |-> walletB.address,
                        amount |-> 10, fee |-> 1, built |-> TRUE]
         /\ \A i \in 1..Len(mempool) : C5_WalletSpend(mempool[i]) )
       => (last.result = "true" /\ Len(mempool) = 1)
    /\ ( /\ C5_AfterFirstBlock /\ Len(chain) = 3
         /\ last.op = "mineBlock" /\ last.result = "block"
         /\ last.arg = walletC.address
         /\ Len(chain[3].transactions) = 2
         /\ C5_WalletSpend(chain[3].transactions[2]) )
       => /\ getBalance(Ledger, walletB.address) = 10
          /\ getBalance(Ledger, walletA.address) = 39
          /\ \A i \in 1..Len(mempool) : mempool[i].hash # chain[3].transactions[2].hash

(* C6: a key h:i is in the UTXO set exactly when some transaction of the chain with
   hash h has an output i and no non-coinbase transaction of the chain has an input
   referencing h:i; the entry's amount, recipient and block height are those of a
   creating output. *)
CreatedKeys == UNION {OutputKeys(tx) : tx \in ChainTxs}

SpentKeys ==
    UNION {IF isCoinbase(tx) THEN {} ELSE InputRefs(tx) : tx \in ChainTxs}

CreatedBy(entry) ==
    \E b \in 1..Len(chain) :
        \E j \in 1..Len(chain[b].transactions) :
            LET tx == chain[b].transactions[j]
            IN  /\ tx.hash = entry.value.txHash
                /\ entry.value.outputIndex + 1 \in 1..Len(tx.outputs)
                /\ entry.value.output = tx.outputs[entry.value.outputIndex + 1]
                /\ entry.value.blockHeight = chain[b].height

C6_UtxoChainAgreement ==
    /\ UtxoKeys = CreatedKeys \ SpentKeys
    /\ \A i \in 1..Len(utxoSet) :
        /\ utxoSet[i].key = UtxoKey(utxoSet[i].value.txHash, utxoSet[i].value.outputIndex)
        /\ CreatedBy(utxoSet[i])

(* C7: after an addBlock call that returned true, every UTXO referenced by an input of
   a non-coinbase transaction of the block is absent from the UTXO set, and every
   output i of every transaction h of the block is present under h:i with that
   output's amount and recipient and the block's height. *)
C7_AdmissionEffect ==
    Admitted =>
        \A j \in 1..Len(LatestBlock.transactions) :
            LET tx == LatestBlock.transactions[j]
            IN  /\ ~isCoinbase(tx) => InputRefs(tx) \cap UtxoKeys = {}
                /\ \A i \in 1..Len(tx.outputs) :
                    /\ MapHas(utxoSet, UtxoKey(tx.hash, i - 1))
                    /\ MapGet(utxoSet, UtxoKey(tx.hash, i - 1)) =
                            [txHash |-> tx.hash, outputIndex |-> i - 1,
                             output |-> tx.outputs[i], blockHeight |-> LatestBlock.height]

(* C8: every non-coinbase transaction of a block admitted to the chain references
   only UTXOs that exist when the block is admitted, and the amounts of the UTXOs its
   inputs reference (one term per input) sum to at least its outputs plus its fee. *)
ReferencedAmounts(tx, utxos) ==
    [i \in 1..Len(tx.inputs) |->
        MapGet(utxos, UtxoKey(tx.inputs[i].previousTxHash, tx.inputs[i].outputIndex)).output.amount]

OutputAmounts(tx) == [i \in 1..Len(tx.outputs) |-> tx.outputs[i].amount]

Conserves(tx, utxos) ==
    /\ \A i \in 1..Len(tx.inputs) :
            MapHas(utxos, UtxoKey(tx.inputs[i].previousTxHash, tx.inputs[i].outputIndex))
    /\ SumSeq(ReferencedAmounts(tx, utxos), Len(tx.inputs))
            >= SumSeq(OutputAmounts(tx), Len(tx.outputs)) + tx.fee

C8_Conservation ==
    [][ (Len(chain') = Len(chain) + 1 /\ last'.op \in {"addBlock", "mineBlock"}) =>
            \A j \in 2..Len(chain'[Len(chain')].transactions) :
                LET tx == chain'[Len(chain')].transactions[j]
                IN  ~isCoinbase(tx) => Conserves(tx, utxoSet) ]_vars

\* a block carrying a non-coinbase transaction has just been admitted
C8_Witness ==
    /\ Admitted
    /\ Len(LatestBlock.transactions) >= 2
    /\ ~isCoinbase(LatestBlock.transactions[2])

(* C9: every block of the chain, the genesis block included, has a coinbase
   transaction at index 0 and at no other index. *)
C9_CoinbaseOnlyFirst ==
    \A b \in 1..Len(chain) :
        /\ Len(chain[b].transactions) >= 1
        /\ isCoinbase(chain[b].transactions[1])
        /\ \A j \in 2..Len(chain[b].transactions) : ~isCoinbase(chain[b].transactions[j])

(* C10: once construction has completed the chain starts with one genesis block at
   height 0 with the all-zero previous hash and two coinbase-style transactions,
   getBalance(creatorAddress) is creatorAllocation, and no later mineBlock call mints
   the creator allocation a second time. *)
CreatorMints ==
    {p \in {q \in (1..Len(chain)) \X (1..MEMPOOL_SLICE + 1) : q[2] <= Len(chain[q[1]].transactions)} :
        LET tx == chain[p[1]].transactions[p[2]]
        IN  /\ isCoinbase(tx)
            /\ \E k \in 1..Len(tx.outputs) : tx.outputs[k].recipientAddress = creatorAddress}

C10_Genesis ==
    genesisDone =>
        /\ Len(chain) >= 1
        /\ chain[1].height = 0
        /\ chain[1].header.previousBlockHash = ZERO_HASH
        /\ Len(chain[1].transactions) = 2
        /\ isCoinbase(chain[1].transactions[1])
        /\ isCoinbase(chain[1].transactions[2])
        /\ \A b \in 2..Len(chain) : chain[b].height = b - 1
        /\ Cardinality(CreatorMints) = 1
        /\ CreatorMints = {<<1, 2>>}
        /\ chain[1].transactions[2].outputs =
                <<[amount |-> creatorAllocation, recipientAddress |-> creatorAddress]>>
        /\ last.op = "initializeGenesis" =>
                /\ Len(chain) = 1
                /\ getBalance(Ledger, creatorAddress) = creatorAllocation

(* C11: Block.isValid returns false for a block whose stored hash differs from the hash
   recomputed from its header, and for a block whose stored merkle root differs from
   the merkle root recomputed from its transactions. *)
StoredHashDiffers(block) == block.hash # sha256(JHeader(Block_calculateMerkleRoot(block).header))

StoredMerkleRootDiffers(block) ==
    block.header.merkleRoot # Block_calculateMerkleRoot(block).header.merkleRoot

C11_TamperedBlockRejected ==
    /\ genesisDone => \A e \in ExternalBlocks :
          (StoredHashDiffers(e.block) \/ StoredMerkleRootDiffers(e.block))
              => ~Block_isValid(e.block, getLatestBlock(Ledger), now).valid
    /\ (last.op = "addBlock" /\ last.arg \in {"wrongHash", "wrongMerkleRoot"})
          => last.result = "false"

(* C12: Transaction.isValid returns true for every coinbase transaction built by
   createCoinbase with a positive output amount, whatever the UTXO set holds. *)
C12_CoinbaseValid ==
    genesisDone => \A m \in Miners :
        LET tx == createCoinbase(m, Len(chain), miningReward, now)
        IN  /\ isCoinbase(tx)
            /\ Transaction_isValid(tx, utxoSet)

(* C13: for a non-coinbase transaction, Transaction.isValid returns false when the
   input list is empty, the output list is empty, some signature does not verify, some
   referenced UTXO key is absent, the total input amount is below outputs plus fee, or
   some output amount is not positive; it returns true when none of these holds. *)
SignatureFails(tx, i) ==
    tx.inputs[i].signature #
        sha256(sha256(JTransactionData(tx)) \o S_underscore
               \o sha256(S_reverse_ \o tx.inputs[i].publicKey))

Refused(tx, utxos) ==
    \/ Len(tx.inputs) = 0
    \/ Len(tx.outputs) = 0
    \/ \E i \in 1..Len(tx.inputs) : SignatureFails(tx, i)
    \/ \E i \in 1..Len(tx.inputs) :
            ~MapHas(utxos, UtxoKey(tx.inputs[i].previousTxHash, tx.inputs[i].outputIndex))
    \/ SumSeq(ReferencedAmounts(tx, utxos), Len(tx.inputs))
            < SumSeq(OutputAmounts(tx), Len(tx.outputs)) + tx.fee
    \/ \E i \in 1..Len(tx.outputs) : tx.outputs[i].amount <= 0

C13_TransactionValidity ==
    \A tx \in SubmittedTxs :
        ~isCoinbase(tx) => (Transaction_isValid(tx, utxoSet) <=> ~Refused(tx, utxoSet))

\* the callers hold a transaction that is valid and transactions of the refused kinds
C13_Witness ==
    /\ \E tx \in SubmittedTxs : ~isCoinbase(tx) /\ Transaction_isValid(tx, utxoSet)
    /\ \E tx \in SubmittedTxs : Len(tx.inputs) = 0
    /\ \E tx \in SubmittedTxs : Len(tx.inputs) = 1 /\ Len(tx.outputs) = 0
    /\ \E tx \in SubmittedTxs :
          /\ ~isCoinbase(tx) /\ Len(tx.inputs) = 1 /\ Len(tx.outputs) = 1
          /\ tx.outputs[1].amount = 0
    /\ \E tx \in SubmittedTxs :
          /\ ~isCoinbase(tx) /\ Len(tx.inputs) = 1
          /\ ~MapHas(utxoSet, UtxoKey(tx.inputs[1].previousTxHash, tx.inputs[1].outputIndex))
    /\ Len(mempool) >= 1

-----------------------------------------------------------------------------
(* Retargeting: one miner extends the chain over two adjustment windows.  The clock
   advances before each mineBlock call; the gap is chosen for the first blocks of a
   window and kept for the rest of it. *)

MaxRetargetChain == 20

RetargetGaps == {500, 6000, 30000}

LastGap == chain[Len(chain)].header.timestamp - chain[Len(chain) - 1].header.timestamp

GapChoices ==
    IF Len(chain) % difficultyAdjustmentInterval \in {1, 2} THEN RetargetGaps ELSE {LastGap}

RetargetTick ==
    /\ genesisDone
    /\ last.op # "tick"
    /\ Len(chain) < MaxRetargetChain
    /\ \E gap \in GapChoices : now' = now + gap
    /\ last' = Call("tick", "done", EMPTY)
    /\ UNCHANGED <<chain, utxoSet, mempool, difficulty, genesisDone, accepted, inflight>>

RetargetMineBlock ==
    /\ genesisDone
    /\ last.op = "tick"
    /\ \E r \in {mineBlock(Ledger, walletA.address, now)} :
          /\ SetLedger(r.ledger)
          /\ last' = Call("mineBlock", r.result, walletA.address)
    /\ UNCHANGED <<genesisDone, now, accepted, inflight>>

NextRetarget ==
    \/ InitializeGenesis
    \/ RetargetTick
    \/ RetargetMineBlock

SpecRetarget == Init /\ [][NextRetarget]_vars

(* C14: a successful addBlock changes the difficulty only when the new chain length is
   a multiple of difficultyAdjustmentInterval; there, with ratio = (timestamp of the
   last block - timestamp of the first block of the window) / (targetBlockTime x
   interval), it becomes d + 1 if ratio < 0.25, max(1, d - 1) if ratio > 4, and stays d
   otherwise; it is never below 1 and moves by at most 1 per admitted block. *)
WindowTime(c) ==
    c[Len(c)].header.timestamp - c[Len(c) - (difficultyAdjustmentInterval - 1)].header.timestamp

Retargeted(c, d) ==
    IF Len(c) % difficultyAdjustmentInterval # 0 THEN d
    ELSE IF 4 * WindowTime(c) < targetBlockTime * difficultyAdjustmentInterval THEN d + 1
    ELSE IF WindowTime(c) > 4 * targetBlockTime * difficultyAdjustmentInterval
         THEN (IF d = 1 THEN 1 ELSE d - 1)
    ELSE d

C14_Retargeting ==
    /\ [](difficulty >= 1)
    /\ [][ /\ (Len(chain') = Len(chain) + 1 /\ last'.op \in {"addBlock", "mineBlock"})
                => difficulty' = Retargeted(chain', difficulty)
           /\ difficulty' - difficulty \in {-1, 0, 1}
           /\ Len(chain') = Len(chain) => difficulty' = difficulty ]_vars

\* the difficulty went up at the first boundary and came down at the second
C14_Witness ==
    /\ Len(chain) = 2 * difficultyAdjustmentInterval
    /\ chain[difficultyAdjustmentInterval + 1].header.difficulty = 2
    /\ difficulty = 1

(***************************************************************************)
(* Fees and the supply cap: callers that submit transactions with a        *)
(* negative fee, a positive fee, and one that brings the supply within     *)
(* less than a reward of maxSupply.                                        *)
(***************************************************************************)
MaxFeeChain == 4

\* spends UTXO u, listed `copies` times, paying `amount` to `to`
PayTx(u, copies, to, amount, fee, t) ==
    ForgeSignatures(Transaction([i \in 1..copies |-> InputFor(u, walletC.publicKey)],
                                <<[amount |-> amount, recipientAddress |-> to]>>,
                                fee, t))

\* a negative fee and a positive fee on any unspent output, and a payment out of the
\* creator allocation that leaves the supply half a reward short of maxSupply once
\* two more rewards are paid
FeeTxs ==
    UNION {{PayTx(utxoSet[i].value, 1, walletB.address,
                  utxoSet[i].value.output.amount + 2 * miningReward, 0 - 2 * miningReward, now),
            PayTx(utxoSet[i].value, 1, walletB.address,
                  utxoSet[i].value.output.amount - 3, 3, now)}
           \cup {PayTx(utxoSet[i].value, maxSupply \div creatorAllocation, walletB.address,
                        maxSupply - 2 * miningReward - (miningReward \div 2), 0, now)
                  : j \in {k \in {1} : utxoSet[i].value.output.amount = creatorAllocation}}
           : i \in 1..Len(utxoSet)}

FeeMineBlock ==
    /\ genesisDone
    /\ Len(chain) < MaxFeeChain
    /\ \E r \in {mineBlock(Ledger, walletA.address, now)} :
          /\ SetLedger(r.ledger)
          /\ last' = Call("mineBlock", r.result, walletA.address)
    /\ UNCHANGED <<genesisDone, now, accepted, inflight>>

FeeAddTransaction ==
    /\ genesisDone
    /\ Len(chain) < MaxFeeChain
    /\ Len(mempool) < MaxMempool
    /\ Cardinality(accepted) < MaxTxs
    /\ \E tx \in FeeTxs :
          \E r \in {addTransaction(Ledger, tx)} :
              /\ SetLedger(r.ledger)
              /\ accepted' = IF r.ok THEN accepted \cup {tx.hash} ELSE accepted
              /\ last' = Call("addTransaction", IF r.ok THEN "true" ELSE "false",
                              IF r.ok THEN tx.hash ELSE EMPTY)
    /\ UNCHANGED <<genesisDone, now, inflight>>

NextFees ==
    \/ InitializeGenesis
    \/ FeeMineBlock
    \/ FeeAddTransaction

SpecFees == Init /\ [][NextFees]_vars

\* the amount paid by the coinbase of the head block of chain c
PaidReward(c) == c[Len(c)].transactions[1].outputs[1].amount

MineBlockAdmits ==
    /\ last'.op = "mineBlock"
    /\ last'.result = "block"
    /\ Len(chain') = Len(chain) + 1

Wanted(supply, fees) ==
    IF miningReward + fees < maxSupply - supply THEN miningReward + fees
    ELSE maxSupply - supply

\* C15: when mineBlock admits a block, its coinbase pays
\* min(miningReward + the fees of all transactions in the mempool at the call,
\* maxSupply - the supply at the call); when the cap truncates the reward the
\* supply lands exactly on maxSupply; and the reward is never zero or negative.
C15_CoinbaseReward ==
    [][MineBlockAdmits =>
          /\ PaidReward(chain') = Wanted(getTotalSupply(Ledger), totalFees(Ledger))
          /\ PaidReward(chain') > 0]_vars

\* a mined block whose coinbase pays a negative amount
C15_NegativeReward ==
    /\ last.op = "mineBlock"
    /\ last.result = "block"
    /\ PaidReward(chain) < 0

\* the cap truncated the reward of the head block and the supply is maxSupply
C15_Truncated ==
    /\ last.op = "mineBlock"
    /\ last.result = "block"
    /\ PaidReward(chain) = miningReward \div 2
    /\ getTotalSupply(Ledger) = maxSupply

\* C16: mineBlock never throws; when it returns null (the supply has reached
\* maxSupply, the nonce search timed out, or addBlock refused the mined block)
\* the chain, the UTXO set, the mempool and the difficulty are unchanged; it
\* returns null whenever the supply has reached maxSupply; and otherwise it
\* returns the admitted block, which is the new chain head.
C16_MineBlockFailure ==
    [][(last'.op = "mineBlock" /\ now' = now) =>
          /\ last'.result \in {"null", "block"}
          /\ last'.result = "null" => Ledger' = Ledger
          /\ getTotalSupply(Ledger) >= maxSupply => last'.result = "null"
          /\ last'.result = "block" =>
                /\ Len(chain') = Len(chain) + 1
                /\ SubSeq(chain', 1, Len(chain)) = chain
                /\ chain'[Len(chain')].header.previousBlockHash = chain[Len(chain)].hash]_vars

InMempool(tx) == \E i \in 1..Len(mempool) : mempool[i].hash = tx.hash

\* C19: addTransaction returns false and leaves the mempool unchanged when
\* tx.isValid(utxoSet) is false or a transaction with the same hash is already
\* in the mempool; otherwise it returns true and appends tx as the last mempool
\* element; either way the chain, the UTXO set and the difficulty are unchanged.
C19_AddTransactionEffect ==
    /\ [](\A tx \in SubmittedTxs :
             addTransaction(Ledger, tx) =
                 IF ~Transaction_isValid(tx, utxoSet) \/ InMempool(tx)
                 THEN [ok |-> FALSE, ledger |-> Ledger]
                 ELSE [ok |-> TRUE,
                       ledger |-> [chain |-> chain, utxoSet |-> utxoSet,
                                   mempool |-> Append(mempool, tx),
                                   difficulty |-> difficulty]])
    /\ [][(last'.op = "addTransaction" /\ now' = now) =>
             /\ UNCHANGED <<chain, utxoSet, difficulty>>
             /\ last'.result = "false" => mempool' = mempool
             /\ last'.result = "true" =>
                   /\ Len(mempool') = Len(mempool) + 1
                   /\ SubSeq(mempool', 1, Len(mempool)) = mempool
                   /\ mempool'[Len(mempool')].hash = last'.arg
                   /\ Transaction_isValid(mempool'[Len(mempool')], utxoSet)
                   /\ ~InMempool(mempool'[Len(mempool')])]_vars

\* a second transaction was appended behind the one already pending, and
\* submitting the pending one again would be refused
C19_Witness ==
    /\ last.op = "addTransaction"
    /\ last.result = "true"
    /\ Len(mempool) = 2
    /\ mempool[2].hash = last.arg
    /\ \E tx \in SubmittedTxs : Transaction_isValid(tx, utxoSet) /\ InMempool(tx)

(***************************************************************************)
(* Block.mine, one turn of its loop at a time.  The search is a frame      *)
(* [op, at, block, attempts, draft]: block is `this`, draft the block as    *)
(* it was handed to mine(), at is "loop", "done" (break) or "threw".        *)
(***************************************************************************)
MaxLeadingZeros == 2         \* no digest of the model has more leading zeros
MineDifficulties == {1, 2, 3}
MineStartNonces == {0, 3}

\* a turn that steps the nonce by two
mineTurn_stride(f, b, t) ==
    IF isValidProofOfWork(b.hash, b.header.difficulty)
    THEN [f EXCEPT !.at = "done", !.block = b]
    ELSE [f EXCEPT !.at = IF f.attempts + 1 > MINING_CEILING THEN "threw" ELSE "loop",
                   !.attempts = f.attempts + 1,
                   !.block = [b EXCEPT !.header.nonce = @ + 2,
                                       !.header.timestamp =
                                           IF (f.attempts + 1) % TIMESTAMP_REFRESH = 0
                                           THEN t ELSE @]]

\* one turn of the loop, b being `this` after calculateHash()
mineTurn(f, b, t) ==
    IF isValidProofOfWork(b.hash, b.header.difficulty)
    THEN [f EXCEPT !.at = "done", !.block = b]
    ELSE [f EXCEPT !.at = IF f.attempts + 1 > MINING_CEILING THEN "threw" ELSE "loop",
                   !.attempts = f.attempts + 1,
                   !.block = [b EXCEPT !.header.nonce = @ + 1,
                                       !.header.timestamp =
                                           IF (f.attempts + 1) % TIMESTAMP_REFRESH = 0
                                           THEN t ELSE @]]

\* The turns that fail because the difficulty is beyond every digest of the model
\* are taken together, up to the turn before the next timestamp refresh or before
\* the ceiling is passed: each adds one to the nonce and to attempts.
NextBoundary(attempts) ==
    IF attempts >= MINING_CEILING THEN attempts + 1
    ELSE (attempts \div TIMESTAMP_REFRESH + 1) * TIMESTAMP_REFRESH

SkipFailing(f) ==
    IF f.block.header.difficulty <= MaxLeadingZeros THEN f
    ELSE [f EXCEPT !.attempts = NextBoundary(f.attempts) - 1,
                   !.block.header.nonce = @ + (NextBoundary(f.attempts) - 1 - f.attempts)]

MineDrafts ==
    {[Block(HeadHash, <<createCoinbase(walletA.address, Len(chain), miningReward, now)>>,
            d, Len(chain), now) EXCEPT !.header.nonce = n]
        : d \in MineDifficulties, n \in MineStartNonces}

Searching == inflight # <<>> /\ inflight[1].at = "loop"

MineStart ==
    /\ genesisDone
    /\ inflight = <<>>
    /\ \E draft \in MineDrafts :
          inflight' = <<[op |-> "mine", at |-> "loop", attempts |-> 0, draft |-> draft,
                         block |-> Block_calculateMerkleRoot(draft)]>>
    /\ last' = Call("mine", "started", EMPTY)
    /\ UNCHANGED <<chain, utxoSet, mempool, difficulty, genesisDone, now, accepted>>

MineTurn ==
    /\ Searching
    /\ \E f \in {SkipFailing(inflight[1])} :
          inflight' = <<mineTurn(f, Block_calculateHash(f.block), now)>>
    /\ UNCHANGED <<chain, utxoSet, mempool, difficulty, genesisDone, now, accepted, last>>

MineEnd ==
    /\ inflight # <<>>
    /\ inflight[1].at \in {"done", "threw"}
    /\ inflight' = <<>>
    /\ last' = Call("mine", inflight[1].at, EMPTY)
    /\ UNCHANGED <<chain, utxoSet, mempool, difficulty, genesisDone, now, accepted>>

NextMine ==
    \/ InitializeGenesis
    \/ Tick
    \/ MineStart
    \/ MineTurn
    \/ MineEnd

SpecMine == Init /\ [][NextMine]_vars /\ WF_vars(MineTurn)

HashAtNonce(header, n) == sha256(JHeader([header EXCEPT !.nonce = n]))

Found(f) ==
    /\ f.block.hash = sha256(JHeader(f.block.header))
    /\ isValidProofOfWork(f.block.hash, f.draft.header.difficulty)
    /\ f.block.header.nonce = f.draft.header.nonce + f.attempts
    /\ f.attempts < TIMESTAMP_REFRESH
    /\ \A n \in f.draft.header.nonce .. f.block.header.nonce - 1 :
          ~isValidProofOfWork(HashAtNonce(f.block.header, n), f.draft.header.difficulty)

TimedOut(f) ==
    /\ f.attempts = MINING_CEILING + 1
    /\ f.block.header.nonce = f.draft.header.nonce + f.attempts

\* C17: Block.mine always terminates.  It stops at the first nonce, counting up
\* from the starting nonce, whose header hash has at least header.difficulty
\* leading zeros, with block.hash the hash of the final header; or it fails with
\* the mining timeout when the count of failed attempts passes 1,000,000, and
\* not before.  A search in progress always comes to one of the two ends.
C17_MineTerminates ==
    /\ [](inflight # <<>> =>
             /\ inflight[1].at = "done" => Found(inflight[1])
             /\ inflight[1].at = "threw" => TimedOut(inflight[1])
             /\ inflight[1].at = "loop" => inflight[1].attempts <= MINING_CEILING)
    /\ [](Searching => <>(~Searching))

\* a search that stopped at a nonce beyond the starting one
C17_Witness ==
    /\ inflight # <<>>
    /\ inflight[1].at = "done"
    /\ inflight[1].attempts >= 2
    /\ inflight[1].draft.header.nonce = 3

\* a search that ended with the mining timeout
C17_TimedOut ==
    /\ inflight # <<>>
    /\ inflight[1].at = "threw"

(***************************************************************************)
(* Overlapping calls.  addTransaction and mineBlock are async functions:   *)
(* each runs synchronously from one await to the next, and other calls run *)
(* in between.  A suspended call is a frame of `inflight`:                 *)
(*   op "addTransaction": at "isValid" (inside transaction.isValid, before *)
(*      it reads the UTXO set), "resume" (isValid has returned `valid`);   *)
(*   op "mineBlock": at "mine" (inside newBlock.mine), "blockIsValid"      *)
(*      (inside addBlock, in newBlock.isValid(prev)), "isValid" / "resume" *)
(*      (the tx.isValid of transaction i of the block), "pushed" (at the   *)
(*      await of updateUtxoSet).                                           *)
(***************************************************************************)
MaxInflight == 2
MaxAsyncChain == 2

Frame(op, at, arg, tx, block) ==
    [op |-> op, at |-> at, arg |-> arg, tx |-> tx, block |-> block,
     prev |-> None, i |-> 0, valid |-> FALSE]

RemoveAt(s, k) == SubSeq(s, 1, k - 1) \o SubSeq(s, k + 1, Len(s))

Suspended(op, at) == {k \in 1..Len(inflight) : inflight[k].op = op /\ inflight[k].at = at}

\* a spend of the creator allocation, with its hash computed and as the constructor
\* leaves it (hash '')
AsyncTxs ==
    UNION {{SpendTx(utxoSet[i].value, 1, walletB.address, 1, now),
            [SpendTx(utxoSet[i].value, 1, walletB.address, 1, now) EXCEPT !.hash = EMPTY]}
           : i \in {k \in 1..Len(utxoSet) :
                       utxoSet[k].value.output.recipientAddress = creatorAddress}}

\* the loop of addBlock at index f.i (counted from 1): the next tx.isValid, or past the
\* last transaction chain.push and updateUtxoSet
addBlock_loop(L, f) ==
    IF f.i <= Len(f.block.transactions)
    THEN [ledger |-> L, frame |-> [f EXCEPT !.at = "isValid"]]
    ELSE [ledger |-> addBlock_push(L, f.block), frame |-> [f EXCEPT !.at = "pushed"]]

AsyncAddTransactionStart ==
    /\ genesisDone
    /\ Len(inflight) < MaxInflight
    /\ Len(mempool) < MaxMempool
    /\ \E tx \in AsyncTxs :
          inflight' = Append(inflight, Frame("addTransaction", "isValid", EMPTY, tx, None))
    /\ UNCHANGED <<chain, utxoSet, mempool, difficulty, genesisDone, now, accepted, last>>

\* Transaction.isValid reads the UTXO set, for addTransaction and for addBlock's loop
AsyncTransactionIsValid ==
    /\ \E k \in 1..Len(inflight) :
          /\ inflight[k].at = "isValid"
          /\ \E tx \in {IF inflight[k].op = "addTransaction" THEN inflight[k].tx
                        ELSE inflight[k].block.transactions[inflight[k].i]} :
                inflight' = [inflight EXCEPT ![k].at = "resume",
                                             ![k].valid = Transaction_isValid(tx, utxoSet)]
    /\ UNCHANGED <<chain, utxoSet, mempool, difficulty, genesisDone, now, accepted, last>>

AsyncAddTransactionResume ==
    /\ \E k \in Suspended("addTransaction", "resume") :
          \E r \in {addTransaction_validated(Ledger, inflight[k].tx, inflight[k].valid)} :
              /\ SetLedger(r.ledger)
              /\ accepted' = IF r.ok THEN accepted \cup {inflight[k].tx.hash} ELSE accepted
              /\ last' = Call("addTransaction", IF r.ok THEN "true" ELSE "false",
                              IF r.ok THEN inflight[k].tx.hash ELSE EMPTY)
              /\ inflight' = RemoveAt(inflight, k)
    /\ UNCHANGED <<genesisDone, now>>

AsyncMineBlockStart ==
    /\ genesisDone
    /\ Len(inflight) < MaxInflight
    /\ Len(chain) < MaxAsyncChain
    /\ getTotalSupply(Ledger) < maxSupply
    /\ inflight' = Append(inflight,
                          Frame("mineBlock", "mine", walletA.address, None,
                                mineBlock_draft(Ledger, walletA.address, now)))
    /\ UNCHANGED <<chain, utxoSet, mempool, difficulty, genesisDone, now, accepted, last>>

\* newBlock.mine() returns or throws; on return addBlock is entered and reads the head
AsyncMined ==
    /\ \E k \in Suspended("mineBlock", "mine") :
          \E mined \in {mine(inflight[k].block, now)} :
              /\ mempool' = HashThrough(mempool, inflight[k].block.transactions)
              /\ IF mined.threw
                 THEN /\ inflight' = RemoveAt(inflight, k)
                      /\ last' = Call("mineBlock", "null", inflight[k].arg)
                 ELSE /\ inflight' = [inflight EXCEPT ![k].at = "blockIsValid",
                                                      ![k].block = mined.block,
                                                      ![k].prev = getLatestBlock(Ledger)]
                      /\ UNCHANGED last
    /\ UNCHANGED <<chain, utxoSet, difficulty, genesisDone, now, accepted>>

AsyncBlockIsValid ==
    /\ \E k \in Suspended("mineBlock", "blockIsValid") :
          \E checked \in {Block_isValid(inflight[k].block, inflight[k].prev, now)} :
              IF ~checked.valid
              THEN /\ inflight' = RemoveAt(inflight, k)
                   /\ last' = Call("mineBlock", "null", inflight[k].arg)
                   /\ UNCHANGED <<chain, utxoSet, mempool, difficulty>>
              ELSE \E r \in {addBlock_loop(Ledger, [inflight[k] EXCEPT !.block = checked.block,
                                                                      !.i = 2])} :
                      /\ SetLedger(r.ledger)
                      /\ inflight' = [inflight EXCEPT ![k] = r.frame]
                      /\ UNCHANGED last
    /\ UNCHANGED <<genesisDone, now, accepted>>

AsyncBlockTxResume ==
    /\ \E k \in Suspended("mineBlock", "resume") :
          IF ~inflight[k].valid
          THEN /\ inflight' = RemoveAt(inflight, k)
               /\ last' = Call("mineBlock", "null", inflight[k].arg)
               /\ UNCHANGED <<chain, utxoSet, mempool, difficulty>>
          ELSE \E r \in {addBlock_loop(Ledger, [inflight[k] EXCEPT !.i = @ + 1])} :
                  /\ SetLedger(r.ledger)
                  /\ inflight' = [inflight EXCEPT ![k] = r.frame]
                  /\ UNCHANGED last
    /\ UNCHANGED <<genesisDone, now, accepted>>

AsyncBlockFinish ==
    /\ \E k \in Suspended("mineBlock", "pushed") :
          /\ SetLedger(addBlock_finish(Ledger, inflight[k].block))
          /\ inflight' = RemoveAt(inflight, k)
          /\ last' = Call("mineBlock", "block", inflight[k].arg)
    /\ UNCHANGED <<genesisDone, now, accepted>>

NextAsync ==
    \/ InitializeGenesis
    \/ AsyncAddTransactionStart
    \/ AsyncTransactionIsValid
    \/ AsyncAddTransactionResume
    \/ AsyncMineBlockStart
    \/ AsyncMined
    \/ AsyncBlockIsValid
    \/ AsyncBlockTxResume
    \/ AsyncBlockFinish

SpecAsync == Init /\ [][NextAsync]_vars

DuplicatePending ==
    \E i, j \in 1..Len(mempool) : i < j /\ mempool[i].hash = mempool[j].hash

\* C18: in every reachable state, also between the awaits of overlapping calls,
\* no two transactions of the mempool have the same hash.
C18_MempoolDistinct == ~DuplicatePending

\* two pending transactions with one hash while no call is in progress
C18_QuiescentDuplicate == inflight = <<>> /\ DuplicatePending

\* the blocks admitted after genesis
AdmittedBlocks == {chain[k] : k \in 2..Len(chain)}

SpentInChain(key) ==
    \E k \in 2..Len(chain) : \E j \in 2..Len(chain[k].transactions) :
        key \in InputRefs(chain[k].transactions[j])

\* b is wholly admitted: its outputs are unspent outputs or were spent by the chain,
\* and none of its transactions is pending
PostAdmission(b) ==
    /\ \A j \in 1..Len(b.transactions) :
          /\ ~InMempool(b.transactions[j])
          /\ \A key \in OutputKeys(b.transactions[j]) :
                MapHas(utxoSet, key) \/ SpentInChain(key)

\* the chain grows by the block of a call that has just passed the last validation
PushesValidated ==
    \E k \in 1..Len(inflight) :
        /\ inflight[k].op = "mineBlock"
        /\ inflight[k].at \in {"blockIsValid", "resume"}
        /\ Len(inflight') = Len(inflight)
        /\ inflight'[k].at = "pushed"
        /\ chain' = Append(chain, inflight'[k].block)
        /\ isValidProofOfWork(inflight'[k].block.hash, inflight'[k].block.header.difficulty)

\* C20: in every state another call or query can observe, each block of the chain
\* is wholly admitted (outputs in the UTXO set, transactions out of the mempool);
\* and the chain changes only when a call appends the block it has mined and
\* validated, so a drafted or mined-but-not-admitted block is never in the chain.
C20_AdmissionAtomic ==
    /\ [](\A b \in AdmittedBlocks : PostAdmission(b))
    /\ [][(genesisDone /\ chain' # chain) => PushesValidated]_vars

\* suspended at the await of updateUtxoSet: the block is the chain head and its
\* outputs are in the UTXO set, yet one of its transactions is still pending
C20_HalfAdmitted ==
    /\ \E k \in Suspended("mineBlock", "pushed") :
          /\ chain[Len(chain)] = inflight[k].block
          /\ Len(inflight[k].block.transactions) >= 2
          /\ \A key \in OutputKeys(inflight[k].block.transactions[2]) : MapHas(utxoSet, key)
          /\ InMempool(inflight[k].block.transactions[2])

(***************************************************************************)
(* The ledger queries.  Each returns [result, ledger]: what the caller     *)
(* gets and the ledger as the query leaves it.  A returned array carries   *)
(* `shared`: whether it is the ledger's own array or a copy of it.         *)
(***************************************************************************)
MaxRecent == 2    \* the count handed to getRecentBlocks

Reverse(s) == [i \in 1..Len(s) |-> s[Len(s) + 1 - i]]

\* the loop of isChainValid at chain[i - 1] (i counts from 1 here): isValid stores the
\* hash and the merkle root it recomputes in the block it validates
RECURSIVE isChainValid_from(_, _, _)
isChainValid_from(L, i, t) ==
    IF i > Len(L.chain) THEN [result |-> TRUE, ledger |-> L]
    ELSE IF ~Block_isValid(L.chain[i], Some(L.chain[i - 1]), t).valid
         THEN [result |-> FALSE,
               ledger |-> [L EXCEPT !.chain[i] =
                              Block_isValid(L.chain[i], Some(L.chain[i - 1]), t).block]]
    ELSE isChainValid_from([L EXCEPT !.chain[i] =
                               Block_isValid(L.chain[i], Some(L.chain[i - 1]), t).block],
                           i + 1, t)

isChainValid(L, t) == isChainValid_from(L, 2, t)

\* "throw" stands for the TypeError of getLatestBlock().hash on an empty chain
getStats(L) ==
    [result |-> IF Len(L.chain) = 0 THEN "throw"
                ELSE [height |-> getHeight(L), difficulty |-> L.difficulty,
                      totalBlocks |-> Len(L.chain),
                      totalTransactions |->
                          SumSeq([k \in 1..Len(L.chain) |-> Len(L.chain[k].transactions)],
                                 Len(L.chain)),
                      totalSupply |-> getTotalSupply(L), mempoolSize |-> Len(L.mempool),
                      utxoSetSize |-> Len(L.utxoSet),
                      latestBlockHash |-> L.chain[Len(L.chain)].hash],
     ledger |-> L]

getBlockByHash(L, hash) ==
    [result |-> IF \E k \in 1..Len(L.chain) : L.chain[k].hash = hash
                THEN Some(L.chain[CHOOSE k \in 1..Len(L.chain) :
                                      /\ L.chain[k].hash = hash
                                      /\ \A n \in 1..(k - 1) : L.chain[n].hash # hash])
                ELSE None,
     ledger |-> L]

getBlockByHeight(L, height) ==
    [result |-> IF height >= 0 /\ height < Len(L.chain) THEN Some(L.chain[height + 1])
                ELSE None,
     ledger |-> L]

getTransactionByHash(L, hash) ==
    LET inChain == {tx \in UNION {{L.chain[k].transactions[j] :
                                      j \in 1..Len(L.chain[k].transactions)} :
                                  k \in 1..Len(L.chain)} : tx.hash = hash}
        pending == {L.mempool[k] : k \in {n \in 1..Len(L.mempool) : L.mempool[n].hash = hash}}
    IN  [result |-> IF inChain # {} \/ pending # {} THEN "found" ELSE "undefined",
         ledger |-> L]

\* this.chain.slice(start).reverse(): the reversal is done on the slice
getRecentBlocks(L, count) ==
    [result |-> Reverse(SubSeq(L.chain,
                               (IF Len(L.chain) - count > 0 THEN Len(L.chain) - count ELSE 0) + 1,
                               Len(L.chain))),
     shared |-> FALSE,
     ledger |-> L]

\* [...this.mempool]
getPendingTransactions(L) == [result |-> L.mempool, shared |-> FALSE, ledger |-> L]

\* the caller empties the array it was handed (r.length = 0)
EmptiesReturned(r, field) == IF r.shared THEN [r.ledger EXCEPT ![field] = <<>>] ELSE r.ledger

\* One admitted non-genesis block of c altered from outside, through the references
\* that getBlockByHash, getBlockByHeight and getRecentBlocks hand out: the amount or
\* the recipient of its first output, or the timestamp or the nonce of its header.
AlteredChains(c) ==
    UNION {{[c EXCEPT ![k].transactions[1].outputs[1].amount = @ + 1],
            [c EXCEPT ![k].transactions[1].outputs[1].recipientAddress = walletC.address \o @],
            [c EXCEPT ![k].header.timestamp = @ + 1],
            [c EXCEPT ![k].header.nonce = @ + 1]}
           : k \in 2..Len(c)}

QueryResults(L, t) ==
    {isChainValid(L, t).ledger, getStats(L).ledger,
     getBlockByHash(L, HeadHash).ledger, getBlockByHeight(L, 1).ledger,
     getTransactionByHash(L, HeadHash).ledger,
     getRecentBlocks(L, MaxRecent).ledger, getPendingTransactions(L).ledger,
     EmptiesReturned(getRecentBlocks(L, MaxRecent), "chain"),
     EmptiesReturned(getPendingTransactions(L), "mempool")}

\* C21: every ledger query leaves the chain (with every stored block hash and merkle
\* root), the UTXO set, the mempool and the difficulty as they were, on the ledger as
\* the calls built it and on a ledger one of whose blocks was altered afterwards;
\* emptying the array returned by getRecentBlocks or getPendingTransactions does
\* not change the ledger either.  (getBalance, getUtxosForAddress and
\* getTotalSupply only compute a value from the UTXO set.)
C21_QueriesPure ==
    /\ QueryResults(Ledger, now) = {Ledger}
    /\ \A c \in AlteredChains(chain) :
          QueryResults([Ledger EXCEPT !.chain = c], now) = {[Ledger EXCEPT !.chain = c]}

\* C22: for a chain built by mineBlock isChainValid returns true, and it returns
\* false once the content of a transaction or a header field of an admitted
\* non-genesis block has been altered.
C22_TamperEvidence ==
    /\ isChainValid(Ledger, now).result
    /\ \A c \in AlteredChains(chain) : ~isChainValid([Ledger EXCEPT !.chain = c], now).result


\* ---------------------------------------------------------------------
\* Serialization (wallet.ts 534-551, block.ts 225-248).  toJSON builds a
\* plain record of the fields; fromJSON runs the constructor, which stamps
\* the current time, and then overwrites hash and timestamp (for a block:
\* header and hash) with the recorded ones.
\* ---------------------------------------------------------------------
Transaction_toJSON(tx) ==
    [hash |-> tx.hash, inputs |-> tx.inputs, outputs |-> tx.outputs,
     fee |-> tx.fee, timestamp |-> tx.timestamp]

\* fromJSON without the line that restores the timestamp
Transaction_fromJSON_stamped(data, t) ==
    [Transaction(data.inputs, data.outputs, data.fee, t) EXCEPT !.hash = data.hash]

Transaction_fromJSON(data, t) ==
    [[Transaction(data.inputs, data.outputs, data.fee, t)
        EXCEPT !.hash = data.hash] EXCEPT !.timestamp = data.timestamp]

Block_toJSON(block) ==
    [hash |-> block.hash, header |-> block.header,
     transactions |-> [i \in 1..Len(block.transactions) |->
                          Transaction_toJSON(block.transactions[i])],
     height |-> block.height]

Block_fromJSON(data, t) ==
    [[Block(data.header.previousBlockHash,
            [i \in 1..Len(data.transactions) |->
                Transaction_fromJSON(data.transactions[i], t)],
            data.header.difficulty, data.height, t)
        EXCEPT !.header = data.header] EXCEPT !.hash = data.hash]

\* every transaction the ledger holds: pending ones and those in blocks
HeldTransactions ==
    {mempool[i] : i \in 1..Len(mempool)}
    \cup UNION {{chain[k].transactions[i] : i \in 1..Len(chain[k].transactions)}
                : k \in 1..Len(chain)}

TransactionRoundTrips(tx, t) ==
    /\ Transaction_fromJSON(Transaction_toJSON(tx), t).inputs = tx.inputs
    /\ Transaction_fromJSON(Transaction_toJSON(tx), t).outputs = tx.outputs
    /\ Transaction_fromJSON(Transaction_toJSON(tx), t).fee = tx.fee
    /\ Transaction_fromJSON(Transaction_toJSON(tx), t).timestamp = tx.timestamp
    /\ Transaction_fromJSON(Transaction_toJSON(tx), t).hash = tx.hash
    /\ Transaction_calculateHash(Transaction_fromJSON(Transaction_toJSON(tx), t)).hash
         = Transaction_calculateHash(tx).hash

BlockRoundTrips(block, t) ==
    /\ Block_fromJSON(Block_toJSON(block), t).hash = block.hash
    /\ Block_fromJSON(Block_toJSON(block), t).header = block.header
    /\ Block_fromJSON(Block_toJSON(block), t).transactions = block.transactions
    /\ Block_fromJSON(Block_toJSON(block), t).height = block.height
    /\ Block_calculateHash(Block_fromJSON(Block_toJSON(block), t)).hash
         = Block_calculateHash(block).hash

\* C23: a transaction or block read back from its record, at whatever
\* time it is read, has the fields and stored hash of the original and
\* recomputes to the same hash.
C23_RoundTrip ==
    /\ \A tx \in HeldTransactions : TransactionRoundTrips(tx, now)
    /\ \A k \in 1..Len(chain) : BlockRoundTrips(chain[k], now)

\* a pending transaction and a mined block with a payment, both read back
\* later than they were created
C23_Witness ==
    /\ \E tx \in HeldTransactions : tx.timestamp # now /\ Len(tx.inputs) > 0
    /\ \E k \in 1..Len(chain) :
          /\ chain[k].header.timestamp # now
          /\ Len(chain[k].transactions) >= 2
    /\ C23_RoundTrip


\* ---------------------------------------------------------------------
\* Transaction hash (wallet.ts 389-433)
\* ---------------------------------------------------------------------
\* the fields the claim lets the hash depend on
SignableFields(tx) ==
    [inputs |-> [i \in 1..Len(tx.inputs) |->
                    <<tx.inputs[i].previousTxHash, tx.inputs[i].outputIndex,
                      tx.inputs[i].publicKey>>],
     outputs |-> tx.outputs, timestamp |-> tx.timestamp, fee |-> tx.fee]

KeysFor(tx, privateKey) == [i \in 1..Len(tx.inputs) |-> privateKey]

\* tx as held, without signatures, and signed by each wallet
Resigned(tx) ==
    {tx,
     [tx EXCEPT !.inputs = [i \in 1..Len(tx.inputs) |-> [tx.inputs[i] EXCEPT !.signature = EMPTY]]],
     signInputs(tx, KeysFor(tx, walletA.privateKey)).tx,
     signInputs(tx, KeysFor(tx, walletB.privateKey)).tx}

HashedTransactions == UNION {Resigned(tx) : tx \in HeldTransactions \cup SubmittedTxs}

AmountChanged(tx) ==
    {[tx EXCEPT !.outputs[i].amount = @ + d] : i \in 1..Len(tx.outputs), d \in {0 - 1, 1}}

\* C24: transactions equal in input triples, outputs, timestamp and fee
\* hash alike whatever their signatures; signing leaves the hash computed
\* before it; any change of an output amount changes the hash.
C24_HashPurity ==
    /\ \A a, b \in HashedTransactions :
          SignableFields(a) = SignableFields(b)
              => Transaction_calculateHash(a).hash = Transaction_calculateHash(b).hash
    /\ \A tx \in HeldTransactions \cup SubmittedTxs : \A w \in Wallets :
          signInputs(Transaction_calculateHash(tx), KeysFor(tx, w.privateKey)).tx.hash
              = Transaction_calculateHash(tx).hash
    /\ \A tx \in HashedTransactions : \A other \in AmountChanged(tx) :
          Transaction_calculateHash(other).hash # Transaction_calculateHash(tx).hash

\* two transactions with the same signable fields and different
\* signatures, one of them with an output whose amount can change
C24_Witness ==
    /\ \E a \in {mempool[i] : i \in 1..Len(mempool)} : \E b \in HashedTransactions :
          /\ SignableFields(a) = SignableFields(b)
          /\ a.inputs # b.inputs
          /\ a.inputs[1].signature # EMPTY /\ b.inputs[1].signature # EMPTY
          /\ AmountChanged(a) # {}
    /\ C24_HashPurity


\* ---------------------------------------------------------------------
\* Merkle root (part_002 58-71) over lists of digests
\* ---------------------------------------------------------------------
MaxLeaves == 5       \* longest list of digests handed to calculateMerkleRoot
MaxDigests == 3      \* distinct digests the lists are drawn from

\* digests the ledger holds: the coinbase hashes of the first blocks
Digests == {chain[k].transactions[1].hash :
               k \in 1..(IF Len(chain) < MaxDigests THEN Len(chain) ELSE MaxDigests)}

DigestLists == UNION {[1..n -> Digests] : n \in 0..MaxLeaves}

\* the next level as the claim words it: adjacent pairs, the last element
\* of an odd level paired with itself
LevelAbove(h) ==
    [p \in 1..((Len(h) + 1) \div 2) |->
        sha256(h[2 * p - 1] \o (IF 2 * p <= Len(h) THEN h[2 * p] ELSE h[2 * p - 1]))]

Swapped(h, i, j) ==
    [p \in 1..Len(h) |-> IF p = i THEN h[j] ELSE IF p = j THEN h[i] ELSE h[p]]

\* C25: empty list -> sha256(''), one element -> itself, otherwise the
\* root of the level above; three and five digests shown in full;
\* swapping two distinct entries changes the root.
C25_MerkleRoot ==
    \A h \in DigestLists :
       /\ Len(h) = 0 => calculateMerkleRoot(h) = sha256(EMPTY)
       /\ Len(h) = 1 => calculateMerkleRoot(h) = h[1]
       /\ Len(h) >= 2 => calculateMerkleRoot(h) = calculateMerkleRoot(LevelAbove(h))
       /\ Len(h) = 3 => calculateMerkleRoot(h)
                          = sha256(sha256(h[1] \o h[2]) \o sha256(h[3] \o h[3]))
       /\ Len(h) = 5 => calculateMerkleRoot(h)
                          = sha256(sha256(sha256(h[1] \o h[2]) \o sha256(h[3] \o h[4]))
                                   \o sha256(sha256(h[5] \o h[5]) \o sha256(h[5] \o h[5])))
       /\ \A i, j \in 1..Len(h) :
             h[i] # h[j] => calculateMerkleRoot(Swapped(h, i, j)) # calculateMerkleRoot(h)

\* lists of odd length at the first and at the second level, with two
\* distinct digests to swap
C25_Witness ==
    /\ Cardinality(Digests) = MaxDigests
    /\ \E h \in DigestLists : Len(h) = MaxLeaves /\ h[1] # h[MaxLeaves]
    /\ C25_MerkleRoot


\* ---------------------------------------------------------------------
\* Wallet.createTransaction (wallet.ts 71-139) on every reachable ledger
\* ---------------------------------------------------------------------
\* amounts and fees asked of createTransaction: nothing to pay, a small
\* payment, a whole block reward with the fee, more than one reward
BuildAmounts == {0, 1, miningReward - 1, miningReward + 10}
BuildFees == {0 - 1, 0, 1}
BuildWallets == {walletA, walletB, walletC}
BuildRecipients == {walletA.address, walletB.address}

Built(w, to, amount, fee) == createTransaction(w, to, amount, fee, Ledger, now)

\* the unspent output an input names
SpentBy(input) == MapGet(utxoSet, UtxoKey(input.previousTxHash, input.outputIndex))

\* total of the outputs named by the first k inputs
InputTotal(tx, k) == SumSeq([i \in 1..k |-> SpentBy(tx.inputs[i]).output.amount], k)

OutputTotal(tx) == SumSeq([i \in 1..Len(tx.outputs) |-> tx.outputs[i].amount], Len(tx.outputs))

PaysAndReturnsChange(tx, w, to, amount, fee) ==
    /\ tx.outputs[1] = [amount |-> amount, recipientAddress |-> to]
    /\ IF InputTotal(tx, Len(tx.inputs)) - amount - fee > 0
       THEN /\ Len(tx.outputs) = 2
            /\ tx.outputs[2] = [amount |-> InputTotal(tx, Len(tx.inputs)) - amount - fee,
                                recipientAddress |-> w.address]
       ELSE Len(tx.outputs) = 1
    /\ InputTotal(tx, Len(tx.inputs)) = OutputTotal(tx) + tx.fee
    /\ tx.fee = fee
    /\ \A i \in 1..Len(tx.inputs) :
          /\ tx.inputs[i].publicKey = w.publicKey
          /\ tx.inputs[i].signature = signMessage(getDataForSigning(tx), w.privateKey)

\* C26: a built transaction pays `amount` to the recipient in its first
\* output, returns the remainder of the selected inputs to the wallet in
\* a second output exactly when the remainder is positive, balances
\* inputs against outputs plus fee, and has every input signed with the
\* wallet's key.
C26_BuiltOutputs ==
    \A w \in BuildWallets, to \in BuildRecipients, amount \in BuildAmounts, fee \in BuildFees :
       Built(w, to, amount, fee) # None
           => PaysAndReturnsChange(Built(w, to, amount, fee)[1], w, to, amount, fee)

\* a wallet builds one transaction with change and one without
C26_Witness ==
    /\ \E w \in BuildWallets, to \in BuildRecipients, amount \in BuildAmounts, fee \in BuildFees :
          /\ Built(w, to, amount, fee) # None
          /\ Len(Built(w, to, amount, fee)[1].outputs) = 2
          /\ Len(Built(w, to, amount, fee)[1].inputs) = 2
    /\ \E w \in BuildWallets, to \in BuildRecipients, amount \in BuildAmounts, fee \in BuildFees :
          /\ Built(w, to, amount, fee) # None
          /\ Len(Built(w, to, amount, fee)[1].outputs) = 1
    /\ C26_BuiltOutputs


\* ---------------------------------------------------------------------
\* Coin selection (wallet.ts 93-104)
\* ---------------------------------------------------------------------
\* the unspent outputs of wallet w that tx does not spend
Unselected(tx, w) ==
    {utxoSet[i].value : i \in 1..Len(utxoSet)}
       \ ({SpentBy(tx.inputs[i]) : i \in 1..Len(tx.inputs)}
          \cup {u \in {utxoSet[i].value : i \in 1..Len(utxoSet)} :
                   u.output.recipientAddress # w.address})

OldestFirst(tx, w) ==
    /\ \A i \in 1..Len(tx.inputs) : SpentBy(tx.inputs[i]).output.recipientAddress = w.address
    /\ \A i, j \in 1..Len(tx.inputs) :
          i < j => /\ SpentBy(tx.inputs[i]).blockHeight <= SpentBy(tx.inputs[j]).blockHeight
                   /\ tx.inputs[i] # tx.inputs[j]
    /\ \A i \in 1..Len(tx.inputs) : \A u \in Unselected(tx, w) :
          SpentBy(tx.inputs[i]).blockHeight <= u.blockHeight
    /\ InputTotal(tx, Len(tx.inputs)) >= tx.outputs[1].amount + tx.fee

\* C27 as stated: the selection is the shortest prefix, oldest first,
\* whose total reaches amount + fee; without its last UTXO the total is
\* below amount + fee.
C27_ShortestPrefix ==
    \A w \in BuildWallets, to \in BuildRecipients, amount \in BuildAmounts, fee \in BuildFees :
       Built(w, to, amount, fee) # None
           => /\ OldestFirst(Built(w, to, amount, fee)[1], w)
              /\ \A k \in 0..(Len(Built(w, to, amount, fee)[1].inputs) - 1) :
                    InputTotal(Built(w, to, amount, fee)[1], k) < amount + fee

\* C27 amended: the selection is the shortest prefix of at least one
\* UTXO, oldest first, whose total reaches amount + fee; when more than
\* one UTXO is selected, the total without the last is below amount + fee.
C27_ShortestNonEmptyPrefix ==
    \A w \in BuildWallets, to \in BuildRecipients, amount \in BuildAmounts, fee \in BuildFees :
       Built(w, to, amount, fee) # None
           => /\ OldestFirst(Built(w, to, amount, fee)[1], w)
              /\ Len(Built(w, to, amount, fee)[1].inputs) >= 1
              /\ \A k \in 1..(Len(Built(w, to, amount, fee)[1].inputs) - 1) :
                    InputTotal(Built(w, to, amount, fee)[1], k) < amount + fee

\* a wallet with three unspent outputs of which two are selected, and a
\* request for nothing that selects one
C27_Witness ==
    /\ \E w \in BuildWallets, to \in BuildRecipients, amount \in BuildAmounts, fee \in BuildFees :
          /\ Built(w, to, amount, fee) # None
          /\ Len(Built(w, to, amount, fee)[1].inputs) = 2
          /\ Unselected(Built(w, to, amount, fee)[1], w) # {}
    /\ \E w \in BuildWallets, to \in BuildRecipients :
          /\ Built(w, to, 0, 0) # None
          /\ Len(Built(w, to, 0, 0)[1].inputs) = 1
    /\ C27_ShortestNonEmptyPrefix


\* ---------------------------------------------------------------------
\* Wallet.sendTransaction (wallet.ts 141-156)
\* ---------------------------------------------------------------------
OwnsNothing(w) ==
    \A i \in 1..Len(utxoSet) : utxoSet[i].value.output.recipientAddress # w.address

Sent(w, to, amount, fee) == sendTransaction(w, to, amount, fee, Ledger, now)

\* C28: createTransaction returns null exactly when the wallet owns no
\* UTXO or its UTXOs total less than amount + fee; sendTransaction then
\* returns false and leaves the ledger as it is, and otherwise returns
\* what addTransaction returns for the built transaction.
C28_SendTransaction ==
    \A w \in BuildWallets, to \in BuildRecipients, amount \in BuildAmounts, fee \in BuildFees :
       /\ (OwnsNothing(w) \/ getBalance(Ledger, w.address) < amount + fee)
             <=> Built(w, to, amount, fee) = None
       /\ Built(w, to, amount, fee) = None
             => /\ Sent(w, to, amount, fee).ok = FALSE
                /\ Sent(w, to, amount, fee).ledger = Ledger
       /\ Built(w, to, amount, fee) # None
             => Sent(w, to, amount, fee) = addTransaction(Ledger, Built(w, to, amount, fee)[1])

\* a send has built a transaction and handed it to addTransaction, and
\* in the same state one request fails for lack of funds, one for lack
\* of any UTXO, and one is built but refused
C28_Witness ==
    /\ last.op = "sendTransaction" /\ last.arg.built
    /\ \E w \in BuildWallets, to \in BuildRecipients, amount \in BuildAmounts, fee \in BuildFees :
          ~OwnsNothing(w) /\ Built(w, to, amount, fee) = None
    /\ \E w \in BuildWallets : OwnsNothing(w)
    /\ \E w \in BuildWallets, to \in BuildRecipients, amount \in BuildAmounts, fee \in BuildFees :
          Built(w, to, amount, fee) # None /\ ~Sent(w, to, amount, fee).ok
    /\ C28_SendTransaction


\* ---------------------------------------------------------------------
\* Transaction.signInputs (wallet.ts 420-433)
\* ---------------------------------------------------------------------
\* transactions to sign: those held or submitted, as they are and
\* before any hash was computed
Signable == UNION {{tx, [tx EXCEPT !.hash = EMPTY]} : tx \in HeldTransactions \cup SubmittedTxs}

\* key lists one shorter than, as long as, and one longer than the inputs,
\* each made of one wallet's key, or of both wallets' keys in turn
KeyListsFor(tx) ==
    UNION {{[i \in 1..n |-> walletA.privateKey],
            [i \in 1..n |-> walletB.privateKey],
            [i \in 1..n |-> IF i % 2 = 1 THEN walletA.privateKey ELSE walletB.privateKey]} :
              n \in {m \in (Len(tx.inputs) - 1)..(Len(tx.inputs) + 1) : m >= 0}}

\* r is what signInputs(tx, keys) returned
SignedOrRefused(tx, keys, r) ==
    IF Len(keys) # Len(tx.inputs)
    THEN /\ r.threw
         /\ r.tx = tx
    ELSE /\ ~r.threw
         /\ Len(r.tx.inputs) = Len(tx.inputs)
         /\ \A i \in 1..Len(tx.inputs) :
               r.tx.inputs[i]
                   = [tx.inputs[i] EXCEPT !.signature = signMessage(getDataForSigning(tx), keys[i])]
         /\ r.tx.hash = sha256(getDataForSigning(tx))
         /\ r.tx.outputs = tx.outputs
         /\ r.tx.fee = tx.fee
         /\ r.tx.timestamp = tx.timestamp

\* C29: with a key count different from the input count signInputs
\* throws and leaves signatures and hash as they were; with equal counts
\* input i gets signMessage(signable text, privateKeys[i]), the hash is
\* the hash of the signable text, and nothing else changes.
C29_SignInputs ==
    \A tx \in Signable : \A keys \in KeyListsFor(tx) :
       SignedOrRefused(tx, keys, signInputs(tx, keys))

\* a pending two-input transaction without a hash, signed with two
\* different keys and refused with one key and with three
C29_Witness ==
    /\ \E tx \in Signable :
          /\ tx.hash = EMPTY /\ Len(tx.inputs) >= 2
          /\ \E i \in 1..Len(mempool) : mempool[i].inputs = tx.inputs
          /\ \E keys \in KeyListsFor(tx) : Len(keys) = Len(tx.inputs) /\ keys[1] # keys[2]
          /\ \E keys \in KeyListsFor(tx) : Len(keys) < Len(tx.inputs)
          /\ \E keys \in KeyListsFor(tx) : Len(keys) > Len(tx.inputs)
    /\ C29_SignInputs


(***************************************************************************)
(* SpecPool: block assembly from a long mempool.  Callers fill the pool    *)
(* with distinct spends of the creator allocation (the first one handed    *)
(* in without a hash), mineBlock is called on a pool of 2 or of            *)
(* MEMPOOL_SLICE + 1 transactions and is suspended in newBlock.mine(),     *)
(* one more transaction may be added meanwhile, and mineBlock then runs    *)
(* to its end.                                                             *)
(***************************************************************************)
MaxPool == 102       \* longest mempool: MEMPOOL_SLICE + 1 at the call, one added later

PoolStarts == {2, MaxPool - 1}

CreatorUtxo ==
    utxoSet[CHOOSE i \in 1..Len(utxoSet) :
               utxoSet[i].value.output.recipientAddress = creatorAddress].value

\* the k-th transaction handed to the pool: fee k, so all of them differ
PoolTx(k) ==
    IF k = 1 THEN [SpendTx(CreatorUtxo, 1, walletB.address, k, now) EXCEPT !.hash = EMPTY]
    ELSE SpendTx(CreatorUtxo, 1, walletB.address, k, now)

PoolAdd(r, tx) ==
    /\ SetLedger(r.ledger)
    /\ accepted' = IF r.ok THEN accepted \cup {tx.hash} ELSE accepted
    /\ last' = Call("addTransaction", IF r.ok THEN "true" ELSE "false",
                    IF r.ok THEN tx.hash ELSE EMPTY)
    /\ UNCHANGED <<genesisDone, now, inflight>>

PoolFill ==
    /\ genesisDone
    /\ inflight = <<>>
    /\ Len(chain) = 1
    /\ Len(mempool) < MaxPool - 1
    /\ PoolAdd(addTransaction(Ledger, PoolTx(Len(mempool) + 1)), PoolTx(Len(mempool) + 1))

\* mineBlock up to `await newBlock.mine()`
PoolMineBlockStart ==
    /\ genesisDone
    /\ inflight = <<>>
    /\ Len(chain) = 1
    /\ Len(mempool) \in PoolStarts
    /\ getTotalSupply(Ledger) < maxSupply
    /\ inflight' = <<Frame("mineBlock", "mine", walletA.address, None,
                           mineBlock_draft(Ledger, walletA.address, now))>>
    /\ UNCHANGED <<chain, utxoSet, mempool, difficulty, genesisDone, now, accepted, last>>

\* addTransaction called and completed while the nonce search is suspended
PoolAddDuringSearch ==
    /\ Suspended("mineBlock", "mine") # {}
    /\ Len(mempool) \in PoolStarts
    /\ PoolAdd(addTransaction(Ledger, PoolTx(Len(mempool) + 1)), PoolTx(Len(mempool) + 1))

\* the rest of mineBlock: the search ends and addBlock runs
PoolMineBlockEnd ==
    /\ Suspended("mineBlock", "mine") # {}
    /\ \E r \in {mineBlock_drafted(Ledger, inflight[1].block, now)} :
          /\ SetLedger(r.ledger)
          /\ last' = Call("mineBlock", r.result, inflight[1].arg)
    /\ inflight' = <<>>
    /\ UNCHANGED <<genesisDone, now, accepted>>

NextPool ==
    \/ InitializeGenesis
    \/ PoolFill
    \/ PoolMineBlockStart
    \/ PoolAddDuringSearch
    \/ PoolMineBlockEnd

SpecPool == Init /\ [][NextPool]_vars

SliceLength(pool) == IF Len(pool) < MEMPOOL_SLICE THEN Len(pool) ELSE MEMPOOL_SLICE

\* txs is a coinbase for `miner` followed by the first min(100, length) of pool
CoinbaseThenPrefix(txs, pool, miner) ==
    /\ Len(txs) = 1 + SliceLength(pool)
    /\ Len(txs[1].inputs) = 1
    /\ txs[1].inputs[1].previousTxHash = ZERO_HASH
    /\ txs[1].outputs[1].recipientAddress = miner
    /\ \A i \in 1..SliceLength(pool) : txs[i + 1] = pool[i]

\* the same transaction, whether or not its hash has been computed yet
SameTransaction(a, b) == [a EXCEPT !.hash = EMPTY] = [b EXCEPT !.hash = EMPTY]

InBlock(tx, block) ==
    \E j \in 1..Len(block.transactions) : SameTransaction(block.transactions[j], tx)

\* C30: the block mineBlock drafts is a coinbase followed by the first
\* min(100, length) transactions of the mempool at the call, in order;
\* the block it appends to the chain has exactly these transactions; and
\* when it returns the block, the mempool is the mempool of just before,
\* in the same order, without the block's transactions, the ones added
\* during the search among the kept.
C30_BlockFromPool ==
    [][/\ (inflight = <<>> /\ inflight' # <<>>)
          => CoinbaseThenPrefix(inflight'[1].block.transactions, mempool, inflight'[1].arg)
       /\ (inflight # <<>> /\ inflight' # <<>>)
          => inflight'[1].block = inflight[1].block
       /\ (inflight # <<>> /\ inflight' = <<>> /\ last'.result = "block")
          => /\ Len(chain') = Len(chain) + 1
             /\ Len(chain'[Len(chain')].transactions) = Len(inflight[1].block.transactions)
             /\ \A j \in 1..Len(inflight[1].block.transactions) :
                   SameTransaction(chain'[Len(chain')].transactions[j],
                                   inflight[1].block.transactions[j])
             /\ \A i \in 1..Len(mempool') : ~InBlock(mempool'[i], chain'[Len(chain')])
             /\ mempool' = SelectSeq(mempool, LAMBDA tx : ~InBlock(tx, chain'[Len(chain')]))
      ]_vars

\* a block of 1 + MEMPOOL_SLICE transactions has been admitted from a
\* longer pool, and the pool keeps the transaction beyond the slice and
\* the one added during the search
C30_Witness ==
    /\ last.op = "mineBlock" /\ last.result = "block"
    /\ inflight = <<>>
    /\ Len(chain[Len(chain)].transactions) = 1 + MEMPOOL_SLICE
    /\ Len(mempool) = 2
    /\ mempool[1].fee = MEMPOOL_SLICE + 1
    /\ mempool[2].fee = MEMPOOL_SLICE + 2

\* a block that takes a whole short pool, the first transaction of which
\* came without a hash, leaving only the transaction added meanwhile
C30_ShortPool ==
    /\ last.op = "mineBlock" /\ last.result = "block"
    /\ inflight = <<>>
    /\ Len(chain[Len(chain)].transactions) = 3
    /\ Len(mempool) = 1


\* ---------------------------------------------------------------------
\* Chain linkage (part_001 61-80, block.ts 132-135)
\* ---------------------------------------------------------------------
Linked(c, i) ==
    /\ c[i].header.previousBlockHash = c[i - 1].hash
    /\ c[i].height = i - 1

\* C31: every block after the first names the hash of the block before it
\* and has its index as height, also when mineBlock calls overlap at their
\* awaits; of several blocks mined on one head at most one is admitted.
C31_ChainLinked ==
    /\ \A i \in 2..Len(chain) : Linked(chain, i)
    /\ \A i, j \in 2..Len(chain) :
          chain[i].header.previousBlockHash = chain[j].header.previousBlockHash => i = j


\* ---------------------------------------------------------------------
\* Supply (part_001 162-175, 96-118)
\* ---------------------------------------------------------------------
\* the fees of the transactions of block b after its coinbase
BlockFees(b) == SumSeq([i \in 1..(Len(b.transactions) - 1) |-> b.transactions[i + 1].fee],
                       Len(b.transactions) - 1)

\* C32: a block admitted through mineBlock raises the total supply by at
\* most miningReward, whatever mempool addTransaction has built, also one
\* of more than 100 transactions; the coinbase pays no more than
\* miningReward plus the fees of the block's own transactions.
C32_NoInflation ==
    [][MineBlockAdmits =>
          /\ getTotalSupply(Ledger') <= getTotalSupply(Ledger) + miningReward
          /\ PaidReward(chain') <= miningReward + BlockFees(chain'[Len(chain')])]_vars


\* ---------------------------------------------------------------------
\* One UTXO, one use (wallet.ts 450-496, part_001 96-105)
\* ---------------------------------------------------------------------
RepeatsInput(tx) ==
    \E i, j \in 1..Len(tx.inputs) :
       /\ i < j
       /\ tx.inputs[i].previousTxHash = tx.inputs[j].previousTxHash
       /\ tx.inputs[i].outputIndex = tx.inputs[j].outputIndex

\* C33: a transaction that names one UTXO in two of its inputs is refused
\* by Transaction.isValid and by addTransaction, and no block admitted
\* after genesis holds one.
C33_InputsDistinct ==
    /\ \A tx \in SubmittedTxs :
          RepeatsInput(tx) => /\ ~Transaction_isValid(tx, utxoSet)
                              /\ ~addTransaction(Ledger, tx).ok
    /\ \A i \in 1..Len(mempool) : ~RepeatsInput(mempool[i])
    /\ \A b \in 2..Len(chain) : \A i \in 2..Len(chain[b].transactions) :
          ~RepeatsInput(chain[b].transactions[i])


\* ---------------------------------------------------------------------
\* Ownership (wallet.ts 436-506, part_002 43-56)
\* ---------------------------------------------------------------------
OwnsInputs(tx) ==
    \A i \in 1..Len(tx.inputs) :
       generateAddress(tx.inputs[i].publicKey) = SpentBy(tx.inputs[i]).output.recipientAddress

\* C34: addTransaction accepts a transaction only if the address derived
\* from the public key of every input is the recipient address of the
\* UTXO the input names.
C34_Ownership ==
    \A tx \in SubmittedTxs : addTransaction(Ledger, tx).ok => OwnsInputs(tx)


\* ---------------------------------------------------------------------
\* Mining progress (part_001 61-77, 120-124)
\* ---------------------------------------------------------------------
\* a mineBlock call made now, with no other call in progress, would find a nonce
SearchSucceeds(minerAddress) ==
    /\ genesisDone
    /\ inflight = <<>>
    /\ getTotalSupply(Ledger) < maxSupply
    /\ ~mine(mineBlock_draft(Ledger, minerAddress, now), now).threw

\* C35: whenever the supply is below maxSupply and the nonce search
\* succeeds, mineBlock admits a block and returns it; every pending
\* transaction is valid against the current UTXO set.
C35_MiningProgress ==
    /\ SearchSucceeds(walletA.address)
          => mineBlock(Ledger, walletA.address, now).result = "block"
    /\ inflight = <<>>
          => \A i \in 1..Len(mempool) : Transaction_isValid(mempool[i], utxoSet)


\* ---------------------------------------------------------------------
\* Coinbase transactions and the mempool (part_001 205-222, 174-175;
\* wallet.ts 471-513)
\* ---------------------------------------------------------------------
\* coinbase-shaped transactions handed to addTransaction: a fresh reward, one
\* whose input carries a signature that verifies, and those of the chain
CoinbaseTxs ==
    { createCoinbase(walletB.address, Len(chain), miningReward, now),
      ForgeSignatures(
          Transaction(<<[previousTxHash |-> ZERO_HASH, outputIndex |-> COINBASE_INDEX,
                         signature |-> EMPTY, publicKey |-> walletC.publicKey]>>,
                      <<[amount |-> 1, recipientAddress |-> walletC.address]>>,
                      0, now)) }
    \cup {chain[b].transactions[1] : b \in 1..Len(chain)}

\* C36: addTransaction returns false for every transaction for which
\* isCoinbase() is true, the mempool never holds a coinbase transaction,
\* and no block assembled by mineBlock has one at an index other than 0.
C36_NoCoinbaseInMempool ==
    /\ \A tx \in CoinbaseTxs \cup SubmittedTxs :
          isCoinbase(tx) => ~addTransaction(Ledger, tx).ok
    /\ \A i \in 1..Len(mempool) : ~isCoinbase(mempool[i])
    /\ Len(chain) > 0 =>
          \E draft \in {mineBlock_draft(Ledger, walletA.address, now)} :
              \A i \in 2..Len(draft.transactions) : ~isCoinbase(draft.transactions[i])
    /\ \A b \in 2..Len(chain) : \A i \in 2..Len(chain[b].transactions) :
          ~isCoinbase(chain[b].transactions[i])

\* a coinbase-shaped transaction whose signature verifies has just been refused
C36_Witness ==
    /\ last.op = "addTransaction"
    /\ last.result = "false"
    /\ Len(mempool) > 0
    /\ Len(chain) > 1
    /\ \E tx \in CoinbaseTxs :
          isCoinbase(tx) /\ verifySignatures(tx) /\ ~addTransaction(Ledger, tx).ok


\* ---------------------------------------------------------------------
\* Difficulty of admitted blocks (part_001 61-68; block.ts 121-124;
\* part_002 74-77)
\* ---------------------------------------------------------------------
\* blocks a caller mines on the current head at a difficulty below the ledger's
EasierBlocks ==
    {mine(Block(HeadHash, <<FreshCoinbase>>, d, Len(chain), now), now).block :
        d \in 0..(difficulty - 1)}

\* C37: addBlock admits a block only if its header.difficulty equals the
\* ledger's current difficulty; a block mined at a lower difficulty (for
\* example difficulty 0) is rejected.
C37_DifficultyEnforced ==
    genesisDone => \A blk \in EasierBlocks : ~addBlock(Ledger, blk, now).ok


\* ---------------------------------------------------------------------
\* Coinbase of a block handed to addBlock (part_001 61-93, 96-118)
\* ---------------------------------------------------------------------
\* blocks a caller mines on the current head whose coinbase pays more than the reward
OverpaidBlocks ==
    {MinedOn(HeadHash, <<createCoinbase(walletC.address, Len(chain), paid, now)>>) :
        paid \in {miningReward + 1, maxSupply}}

CoinbaseWithinReward(blk) ==
    getTotalOutputAmount(blk.transactions[1]) <= miningReward + BlockFees(blk)

\* C38: addBlock admits a block only if its coinbase output total is at
\* most miningReward plus the fees of the block's other transactions, and
\* no addBlock call raises the sum of all UTXO amounts above maxSupply.
C38_CoinbaseChecked ==
    genesisDone =>
        \A blk \in OverpaidBlocks \cup {e.block : e \in ExternalBlocks} :
            \E r \in {addBlock(Ledger, blk, now)} :
                /\ r.ok => CoinbaseWithinReward(blk)
                /\ getTotalSupply(r.ledger) <= maxSupply


\* ---------------------------------------------------------------------
\* Initialization order (part_001 19-53; App.tsx 21-34)
\* ---------------------------------------------------------------------
LedgerOps == {"mineBlock", "addBlock", "addTransaction", "sendTransaction"}

\* the chain starts with the mined genesis block, whose outputs are unspent
\* outputs or were spent by the chain
GenesisInPlace ==
    /\ Len(chain) >= 1
    /\ getLatestBlock(Ledger) # None
    /\ chain[1] = GenesisBlock
    /\ \A j \in 1..Len(chain[1].transactions) :
          \A k \in 1..Len(chain[1].transactions[j].outputs) :
              \/ MapHas(utxoSet, UtxoKey(chain[1].transactions[j].hash, k - 1))
              \/ SpentInChain(UtxoKey(chain[1].transactions[j].hash, k - 1))

\* C39: from the moment the constructor has returned, every operation on
\* the ledger observes a chain of length >= 1 whose index-0 block is the
\* mined genesis block with its outputs in the UTXO set; no operation runs
\* against an empty chain.
C39_GenesisFirst ==
    [][(last'.op \in LedgerOps /\ now' = now) => GenesisInPlace]_vars

====
